---- MODULE Spec2Model ----
(***************************************************************************)
(* Model of the esports-tracker worker: the activity scorer, the per-region *)
(* priority queues of AccountSelector, the region tasks of                  *)
(* FetchMatchesJobV2, the RateLimiter and the retry loop of                 *)
(* RiotAPIService._request.                                                 *)
(*                                                                          *)
(* Units.  Scheduler time (clock, next_fetch_at, intervals) is in minutes.  *)
(* Activity scores are Python floats in [0, 100]; they are kept here in     *)
(* thousandths of a point (38.0 is 38000), products are truncated.          *)
(* Rate-limiter time is in seconds, backoff delays in milliseconds.         *)
(***************************************************************************)
EXTENDS Integers, Sequences, FiniteSets, TLC

\* ------------------------------------------------------------------------
\* Bounds of the model
\* ------------------------------------------------------------------------
MaxClock == 2
MaxCalls == 3
MaxCount == 2
MaxResched == 5
MaxSchedClock == 2
MaxAcquires == 4
MaxRlTime == 3
MaxIngests == 2

MaxSignals == 2

\* ------------------------------------------------------------------------
\* Small helpers
\* ------------------------------------------------------------------------
None == "None"

\* None where the value is otherwise a time, and where it is a tuple
NoTime == -1

NoData == <<>>

Min(a, b) == IF a < b THEN a ELSE b

Max(a, b) == IF a > b THEN a ELSE b

Range(s) == {s[i] : i \in 1..Len(s)}

\* ------------------------------------------------------------------------
\* ActivityScorer (src/worker/src/services/activity_scorer.py)
\* ------------------------------------------------------------------------
TIER_VERY_ACTIVE == 70000
TIER_ACTIVE == 40000
TIER_MODERATE == 20000

Tiers == {"very_active", "active", "moderate", "inactive"}

\* 30 * exp(-hours_since / 12) in thousandths, for the hours the model uses;
\* NoMatch stands for last_match_at = None.
NoMatch == -1

RecencyHours == {NoMatch, 0, 12, 24, 48}

recency_component(hours_since) ==
    CASE hours_since = NoMatch -> 0
      [] hours_since = 0 -> 30000
      [] hours_since = 12 -> 11036
      [] hours_since = 24 -> 4060
      [] hours_since = 48 -> 549

calculate_score(games_today, games_last_3_days, games_last_7_days, hours_since) ==
    LET today_score == Min(games_today * 10000, 35000)
        recent_score == Min(games_last_3_days * 2000, 20000)
        recent_component == today_score + recent_score
        trend_component ==
            IF games_last_7_days > 0
            THEN Min((games_last_7_days * 3000) \div 7, 15000)
            ELSE 0
        total_score == recent_component + recency_component(hours_since)
                         + trend_component
    IN Max(0, Min(100000, total_score))

\* a scorer whose thresholds are exclusive
determine_tier_Exclusive(score) ==
    IF score > TIER_VERY_ACTIVE THEN "very_active"
    ELSE IF score > TIER_ACTIVE THEN "active"
    ELSE IF score > TIER_MODERATE THEN "moderate"
    ELSE "inactive"

determine_tier(score) ==
    IF score >= TIER_VERY_ACTIVE THEN "very_active"
    ELSE IF score >= TIER_ACTIVE THEN "active"
    ELSE IF score >= TIER_MODERATE THEN "moderate"
    ELSE "inactive"

\* a scorer whose "decay" raises the score by 5%
apply_empty_fetch_decay_Growth(current_score) ==
    Min(100000, (current_score * 105) \div 100)

apply_empty_fetch_decay(current_score) ==
    Max(0, (current_score * 95) \div 100)

apply_match_boost_Uncapped(current_score, new_matches) ==
    current_score + Min(new_matches * 5000, 20000)

apply_match_boost(current_score, new_matches) ==
    LET boost == Min(new_matches * 5000, 20000)
    IN Min(100000, current_score + boost)

\* ------------------------------------------------------------------------
\* heapq on a list of entries; key[x] is x.next_fetch_at, the only field
\* PrioritizedAccount.__lt__ compares.  Positions are 0-based as in heapq,
\* the sequence is 1-based.
\* ------------------------------------------------------------------------
RECURSIVE SiftDownLoop(_, _, _, _, _)
SiftDownLoop(heap, key, newitem, startpos, pos) ==
    IF pos > startpos
    THEN LET parentpos == (pos - 1) \div 2
             parent == heap[parentpos + 1]
         IN IF key[newitem] < key[parent]
            THEN SiftDownLoop([heap EXCEPT ![pos + 1] = parent], key,
                              newitem, startpos, parentpos)
            ELSE [heap EXCEPT ![pos + 1] = newitem]
    ELSE [heap EXCEPT ![pos + 1] = newitem]

SiftDown(heap, key, startpos, pos) ==
    SiftDownLoop(heap, key, heap[pos + 1], startpos, pos)

RECURSIVE SiftUpLoop(_, _, _, _, _)
SiftUpLoop(heap, key, newitem, startpos, pos) ==
    LET endpos == Len(heap)
        childpos == 2 * pos + 1
    IN IF childpos < endpos
       THEN LET rightpos == childpos + 1
                c == IF rightpos < endpos
                        /\ ~(key[heap[childpos + 1]] < key[heap[rightpos + 1]])
                     THEN rightpos
                     ELSE childpos
            IN SiftUpLoop([heap EXCEPT ![pos + 1] = heap[c + 1]], key,
                          newitem, startpos, c)
       ELSE SiftDown([heap EXCEPT ![pos + 1] = newitem], key, startpos, pos)

SiftUp(heap, key, pos) == SiftUpLoop(heap, key, heap[pos + 1], pos, pos)

heappush(heap, key, item) ==
    SiftDown(Append(heap, item), key, 0, Len(heap))

\* heappop returns <<item, heap after>>
heappop(heap, key) ==
    LET lastelt == heap[Len(heap)]
        rest == SubSeq(heap, 1, Len(heap) - 1)
    IN IF rest # <<>>
       THEN <<rest[1], SiftUp([rest EXCEPT ![1] = lastelt], key, 0)>>
       ELSE <<lastelt, rest>>


\* ------------------------------------------------------------------------
\* AccountSelectorConfig (src/worker/src/services/account_selector.py:55-75)
\* and the configurations the scheduler is run under.  Every one of them passes
\* Settings.validate_priority_intervals (0 < base <= max per tier).
\* ------------------------------------------------------------------------
AccountSelectorConfig ==
    [base |-> [very_active |-> 3, active |-> 15, moderate |-> 60, inactive |-> 240],
     max |-> [very_active |-> 5, active |-> 30, moderate |-> 120, inactive |-> 360]]

\* intervals of a few minutes, so that a rescheduled entry becomes due again
\* within MaxClock minutes
TinyConfig ==
    [base |-> [very_active |-> 1, active |-> 1, moderate |-> 2, inactive |-> 2],
     max |-> [very_active |-> 1, active |-> 2, moderate |-> 2, inactive |-> 3]]

\* accepted with a warning only (validate_interval_ordering): the moderate
\* tier is refreshed more often than the active one
UnorderedConfig ==
    [base |-> [very_active |-> 3, active |-> 15, moderate |-> 5, inactive |-> 240],
     max |-> [very_active |-> 5, active |-> 30, moderate |-> 10, inactive |-> 360]]

\* base intervals ascending (no warning), but a cap above the next base
WideCapConfig ==
    [base |-> [very_active |-> 3, active |-> 30, moderate |-> 60, inactive |-> 240],
     max |-> [very_active |-> 5, active |-> 200, moderate |-> 120, inactive |-> 360]]

validate_priority_intervals(c) ==
    \A t \in Tiers : ~(c.base[t] > c.max[t]) /\ ~(c.base[t] <= 0)

\* ------------------------------------------------------------------------
\* The world the scheduler runs in
\* ------------------------------------------------------------------------
Accounts == {"a1", "a2"}

Regions == {"EUW", "NA"}

Tasks == {"t1", "t2"}

\* the accounts get_active_accounts_with_activity may return at startup; an
\* account that is not returned can be added later by add_account
DbRowSets == {{"a1"}, {"a1", "a2"}}

\* activity counters read from the store:
\* <<games_today, games_last_3_days, games_last_7_days, hours since last match>>
Dormant == <<0, 0, 0, NoMatch>>

Grinder == <<8, 22, 50, 0>>

ScoreOf(act) == calculate_score(act[1], act[2], act[3], act[4])

VARIABLES
    clock,        \* datetime.now(timezone.utc), minutes
    cfg,          \* AccountSelector.config
    initialized,  \* AccountSelector.initialize has run
    queues,       \* AccountSelector.queues: region -> heap (list of entries)
    locks,        \* AccountSelector._locks: region -> holder or None
    account_map,  \* AccountSelector._account_map: the indexed puuids
    acct,         \* the PrioritizedAccount objects, by puuid
    task,         \* locals of each _process_region task
    entry,        \* scheduling of one entry: the PrioritizedAccount
    calls,        \* scheduling of one entry: the reschedule calls made so far
    rl,           \* RateLimiter state and the clock it reads
    acq,          \* locals of each acquire() caller
    completed,    \* timestamps of the acquire() calls that have returned
    req,          \* locals of one RiotAPIService._request
    store,        \* match tables of the store: matches, stats, synergy
    ing,          \* locals of each task ingesting a match
    slp,          \* one call of _calculate_sleep_time: its inputs and result
    wk,           \* Worker and main(): the process lifecycle
    st,           \* one construction of Settings: its fields and outcome
    db,           \* account table of the store: active players, priority
    sc,           \* one activity score and the scorer calls applied to it
    fa,           \* one call of _fetch_account_matches: locals and effects
    cy,           \* the driver loop of run(): cycles and region tasks
    dy,           \* lol_daily_stats rows of one account and its matches per date
    prc           \* one account's pass through the loop body of _process_region

vars == <<clock, cfg, initialized, queues, locks, account_map, acct, task,
          entry, calls, rl, acq, completed, req, store, ing, slp, wk, st, db,
          sc, fa, cy, dy, prc>>

selVars == <<clock, cfg, initialized, queues, locks, account_map, acct, task>>

schedVars == <<entry, calls>>

rlVars == <<rl, acq, completed>>

reqVars == <<req>>

ingVars == <<store, ing>>

tailVars == <<dy, prc>>

lateVars == <<sc, fa, cy, tailVars>>

extVars == <<store, ing, slp, wk, st, db, lateVars>>

\* ------------------------------------------------------------------------
\* AccountSelector.reschedule, lines 309-356: the fields it assigns.
\* e is the entry, c the configuration, data the fresh activity counters or
\* None.  Returns <<entry after, interval>>.
\* ------------------------------------------------------------------------
\* a reschedule that looks the interval up under the tier the entry had
TierForInterval_Stale(e_before, score_after) == e_before.tier

TierForInterval(e_before, score_after) == determine_tier(score_after)

CefAfter_ResetAtTwo(e, new_matches) ==
    IF new_matches > 0 \/ e.consecutive_empty_fetches >= 2
    THEN 0 ELSE e.consecutive_empty_fetches + 1

CefAfter(e, new_matches) ==
    IF new_matches > 0 THEN 0 ELSE e.consecutive_empty_fetches + 1

BackoffCap == 8

\* a backoff that grows with the counter itself instead of doubling
backoff_factor_Linear(cef) == Min(cef, BackoffCap)

\* min(2 ** cef, 8) of lines 344-347.  Python integers have no width; the
\* power is taken of min(cef, 3), where the minimum is reached, so that it
\* stays a machine integer for every counter
backoff_factor(cef) == Min(2 ^ Min(cef, 3), BackoffCap)

\* a reschedule without the clamp of lines 352-353
IntervalFor_NoClamp(c, tier, cef) ==
    IF cef > 0 THEN c.base[tier] * backoff_factor(cef) ELSE c.base[tier]

IntervalFor(c, tier, cef) ==
    LET base_interval == c.base[tier]
        max_interval == c.max[tier]
        interval == IF cef > 0
                    THEN base_interval * backoff_factor(cef)
                    ELSE base_interval
    IN IF interval > max_interval THEN max_interval ELSE interval

RescheduleFields(e, c, now, new_matches, data) ==
    LET cef == CefAfter(e, new_matches)
        score == IF new_matches > 0
                 THEN IF data # NoData
                      THEN ScoreOf(data)
                      ELSE apply_match_boost(e.activity_score, new_matches)
                 ELSE apply_empty_fetch_decay(e.activity_score)
        tier == TierForInterval(e, score)
        interval == IntervalFor(c, tier, cef)
    IN <<[e EXCEPT !.consecutive_empty_fetches = cef,
                   !.activity_score = score,
                   !.tier = tier,
                   !.next_fetch_at = now + interval,
                   !.last_fetched_at = now],
         interval>>


\* ------------------------------------------------------------------------
\* State of the other components while one component runs
\* ------------------------------------------------------------------------
NoEntry ==
    [activity_score |-> 0, tier |-> "inactive", next_fetch_at |-> 0,
     last_fetched_at |-> NoTime, consecutive_empty_fetches |-> 0, region |-> None]

\* the locals of _process_region and of the reschedule call it awaits that
\* are still read later: the region, the popped accounts, the position in
\* them, whether the except handler is running, and reschedule's interval
IdleTask ==
    [pc |-> "idle", region |-> None, ready |-> <<>>, idx |-> 1,
     in_except |-> FALSE, interval |-> 0, ncalls |-> 0]

IdleAcq == [pc |-> "idle", now |-> 0, wait |-> 0]

\* no response received, no RiotAPIError raised
NoStatus == 0

IdleReq ==
    [pc |-> "idle", retry_count |-> 0, attempts |-> 0, n429 |-> 0,
     sleeps |-> 0, delay |-> 0, last |-> None, outcome |-> None,
     retry_after |-> NoTime, limiter |-> None, acquires |-> 0,
     granted |-> FALSE, used |-> {}, response_status |-> NoStatus,
     error_status |-> NoStatus]

SelIdle ==
    /\ clock = 0
    /\ cfg = AccountSelectorConfig
    /\ initialized = FALSE
    /\ queues = <<>>
    /\ locks = <<>>
    /\ account_map = {}
    /\ acct = [a \in Accounts |-> NoEntry]
    /\ task = [t \in Tasks |-> IdleTask]

SchedIdle ==
    /\ entry = NoEntry
    /\ calls = <<>>

RlIdle ==
    /\ rl = [short_limit |-> 1, long_limit |-> 1, short_window |-> <<>>,
             long_window |-> <<>>, lock |-> None, time |-> 0]
    /\ acq = [t \in Tasks |-> IdleAcq]
    /\ completed = <<>>

ReqIdle == req = IdleReq

EmptyStore == [matches |-> {}, stats |-> {}, synergy |-> <<>>]

IngIdle ==
    /\ store = EmptyStore
    /\ ing = <<>>

SlpIdle == slp = <<>>

WkIdle == wk = <<>>

StIdle == st = <<>>

DbIdle == db = <<>>

ScIdle == sc = <<>>

FaIdle == fa = <<>>

CyIdle == cy = <<>>

DyIdle == dy = <<>>

PrcIdle == prc = <<>>

TailIdle == DyIdle /\ PrcIdle

LateIdle == ScIdle /\ FaIdle /\ CyIdle /\ TailIdle

ExtIdle == IngIdle /\ SlpIdle /\ WkIdle /\ StIdle /\ DbIdle /\ LateIdle

\* ------------------------------------------------------------------------
\* AccountSelector and the region tasks of FetchMatchesJobV2
\* ------------------------------------------------------------------------
Key == [a \in Accounts |-> acct[a].next_fetch_at]

HasQueue(r) == r \in DOMAIN queues

\* d[r] for r in the domain, v for the new key k
Put(d, k, v) == [x \in DOMAIN d \cup {k} |-> IF x = k THEN v ELSE d[x]]

\* values get_active_accounts_with_activity may hold for next_fetch_at
StoredNextFetch == {NoTime, 0, 3}

RegionOfRow(a) == "EUW"

\* the rows in the order of the query: ORDER BY next_fetch_at NULLS FIRST
RowOrders(D, nf) ==
    {o \in [1..Cardinality(D) -> D] :
        /\ \A i, j \in DOMAIN o : i # j => o[i] # o[j]
        /\ \A i, j \in DOMAIN o :
              i < j => \/ nf[o[i]] = NoTime
                       \/ (nf[o[j]] # NoTime /\ nf[o[i]] <= nf[o[j]])}

RECURSIVE PushRows(_, _, _)
PushRows(heap, key, rows) ==
    IF rows = <<>> THEN heap
    ELSE PushRows(heappush(heap, key, rows[1]), key, Tail(rows))

SelInit ==
    /\ clock = 1
    /\ cfg = TinyConfig
    /\ initialized = FALSE
    /\ queues = <<>>
    /\ locks = <<>>
    /\ account_map = {}
    /\ acct = [a \in Accounts |-> NoEntry]
    /\ task = [t \in Tasks |-> IdleTask]

\* the loop of initialize over the rows of the query (lines 120-161), run on
\* the empty queues and index of a new AccountSelector: nf, cef and act give
\* each row's next_fetch_at, consecutive_empty_fetches and activity counts
LoadRows(D, nf, cef, act, rows) ==
    LET pa(a) ==
          [activity_score |-> ScoreOf(act[a]),
           tier |-> determine_tier(ScoreOf(act[a])),
           next_fetch_at |-> IF nf[a] # NoTime THEN nf[a] ELSE clock,
           last_fetched_at |-> NoTime,
           consecutive_empty_fetches |-> cef[a],
           region |-> RegionOfRow(a)]
        acct1 == [a \in Accounts |-> IF a \in D THEN pa(a) ELSE NoEntry]
        key1 == [a \in Accounts |-> acct1[a].next_fetch_at]
    IN /\ acct' = acct1
       /\ queues' = Put(<<>>, "EUW", PushRows(<<>>, key1, rows))
       /\ locks' = Put(<<>>, "EUW", None)
       /\ account_map' = D

\* AccountSelector.initialize on a store whose empty-fetch counters are 0
initialize ==
    /\ ~initialized
    /\ \E D \in DbRowSets :
       \E nf \in [D -> StoredNextFetch], act \in [D -> {Dormant, Grinder}] :
         \E rows \in RowOrders(D, nf) :
            LoadRows(D, nf, [a \in D |-> 0], act, rows)
    /\ initialized' = TRUE
    /\ UNCHANGED <<clock, cfg, task>>

\* AccountSelector.add_account.  The region lock is an asyncio.Lock that no
\* holder keeps across an await, so it is free whenever a task runs and the
\* method runs to its end without suspending.
add_account(puuid, region) ==
    /\ initialized
    /\ IF puuid \in account_map
       THEN UNCHANGED <<queues, locks, acct, account_map>>
       ELSE LET pa == [activity_score |-> ScoreOf(Dormant),
                       tier |-> determine_tier(ScoreOf(Dormant)),
                       next_fetch_at |-> clock,
                       last_fetched_at |-> NoTime,
                       consecutive_empty_fetches |-> 0,
                       region |-> region]
                q == IF HasQueue(region) THEN queues[region] ELSE <<>>
                key1 == [Key EXCEPT ![puuid] = pa.next_fetch_at]
            IN /\ HasQueue(region) => locks[region] = None
               /\ acct' = [acct EXCEPT ![puuid] = pa]
               /\ queues' = Put(queues, region, heappush(q, key1, puuid))
               /\ locks' = Put(locks, region, None)
               /\ account_map' = account_map \cup {puuid}
    /\ UNCHANGED <<clock, cfg, initialized, task>>

\* the while loop of get_ready_accounts (lines 274-292):
\* returns <<ready, heap after>>
RECURSIVE PopReady(_, _, _, _, _)
PopReady(heap, key, now, max_count, ready) ==
    IF heap # <<>> /\ Len(ready) < max_count
    THEN IF key[heap[1]] <= now
         THEN PopReady(heappop(heap, key)[2], key, now, max_count,
                       Append(ready, heappop(heap, key)[1]))
         ELSE <<ready, heap>>
    ELSE <<ready, heap>>

\* AccountSelector.get_ready_accounts, called by _process_region
\* (fetch_matches_v2.py:166).  Nothing is awaited while the lock is held.
get_ready_accounts(t, region, max_count) ==
    /\ initialized
    /\ task[t].pc = "idle"
    /\ task["t1"].ncalls + task["t2"].ncalls < MaxCalls
    /\ IF ~HasQueue(region)
       THEN /\ task' = [task EXCEPT ![t] =
                          [IdleTask EXCEPT !.pc = "got", !.region = region,
                                           !.ncalls = task[t].ncalls + 1]]
            /\ UNCHANGED queues
       ELSE LET res == PopReady(queues[region], Key, clock, max_count, <<>>)
            IN /\ locks[region] = None
               /\ task' = [task EXCEPT ![t] =
                             [IdleTask EXCEPT !.pc = "got", !.region = region,
                                              !.ready = res[1],
                                              !.ncalls = task[t].ncalls + 1]]
               /\ queues' = [queues EXCEPT ![region] = res[2]]
    /\ UNCHANGED <<clock, cfg, initialized, locks, account_map, acct>>

\* amounts of new matches one fetch may find
NewMatches == {0, 5}

\* AccountSelector.reschedule(account, new_matches, data) up to its await of
\* update_account_priority (lines 309-363), by task t
RescheduleEffect(t, a, new_matches, data, in_except) ==
    LET res == RescheduleFields(acct[a], cfg, clock, new_matches, data)
        r == acct[a].region
        key1 == [Key EXCEPT ![a] = res[1].next_fetch_at]
    IN /\ locks[r] = None
       /\ acct' = [acct EXCEPT ![a] = res[1]]
       /\ queues' = [queues EXCEPT ![r] = heappush(@, key1, a)]
       /\ account_map' = account_map \cup {a}
       /\ task' = [task EXCEPT ![t].pc = "rs_db",
                               ![t].interval = res[2],
                               ![t].in_except = in_except]

\* _process_region, one pass of the for loop up to the await inside
\* reschedule (fetch_matches_v2.py:168-250).  failed: an exception was raised
\* in the try block before reschedule was called, and the handler
\* reschedules with 0 matches.
process_account(t, new_matches, data, failed) ==
    /\ task[t].pc = "got"
    /\ task[t].idx <= Len(task[t].ready)
    /\ new_matches = 0 => data = NoData
    /\ failed => (new_matches = 0 /\ data = NoData)
    /\ RescheduleEffect(t, task[t].ready[task[t].idx], new_matches, data, failed)
    /\ UNCHANGED <<clock, cfg, initialized, locks>>

\* update_account_priority returns and reschedule with it (lines 366-382);
\* the for loop goes to the next account
reschedule_persisted(t) ==
    /\ task[t].pc = "rs_db"
    /\ task' = [task EXCEPT ![t].pc = "got", ![t].idx = @ + 1,
                            ![t].in_except = FALSE, ![t].interval = 0]
    /\ UNCHANGED <<clock, cfg, initialized, queues, locks, account_map, acct>>

\* update_account_priority raises inside the try block: the handler of
\* _process_region reschedules the account again with 0 matches
\* (fetch_matches_v2.py:223-250)
reschedule_failed(t) ==
    /\ task[t].pc = "rs_db"
    /\ ~task[t].in_except
    /\ RescheduleEffect(t, task[t].ready[task[t].idx], 0, NoData, TRUE)
    /\ UNCHANGED <<clock, cfg, initialized, locks>>

\* update_account_priority raises inside the handler: the exception leaves
\* _process_region and the rest of the batch with it
process_region_raises(t) ==
    /\ task[t].pc = "rs_db"
    /\ task[t].in_except
    /\ task' = [task EXCEPT ![t] = [IdleTask EXCEPT !.ncalls = task[t].ncalls]]
    /\ UNCHANGED <<clock, cfg, initialized, queues, locks, account_map, acct>>

\* _process_region returns after the last account (fetch_matches_v2.py:252-263)
process_region_return(t) ==
    /\ task[t].pc = "got"
    /\ task[t].idx > Len(task[t].ready)
    /\ task' = [task EXCEPT ![t] = [IdleTask EXCEPT !.ncalls = task[t].ncalls]]
    /\ UNCHANGED <<clock, cfg, initialized, queues, locks, account_map, acct>>

\* the wall clock advances
Tick ==
    /\ clock < MaxClock
    /\ clock' = clock + 1
    /\ UNCHANGED <<cfg, initialized, queues, locks, account_map, acct, task>>

\* the other components do not move while the scheduler runs
SelFrame == UNCHANGED <<schedVars, rlVars, reqVars, extVars>>

Next ==
    \/ initialize /\ SelFrame
    \/ \E p \in Accounts, r \in Regions : add_account(p, r) /\ SelFrame
    \/ \E t \in Tasks, r \in Regions, m \in 1..MaxCount :
          get_ready_accounts(t, r, m) /\ SelFrame
    \/ \E t \in Tasks, n \in NewMatches, d \in {NoData, Grinder}, f \in BOOLEAN :
          process_account(t, n, d, f) /\ SelFrame
    \/ \E t \in Tasks : reschedule_persisted(t) /\ SelFrame
    \/ \E t \in Tasks : reschedule_failed(t) /\ SelFrame
    \/ \E t \in Tasks : process_region_raises(t) /\ SelFrame
    \/ \E t \in Tasks : process_region_return(t) /\ SelFrame
    \/ Tick /\ SelFrame

Init == SelInit /\ SchedIdle /\ RlIdle /\ ReqIdle /\ ExtIdle

Spec == Init /\ [][Next]_vars

\* ------------------------------------------------------------------------
\* Claims about the priority queues
\* ------------------------------------------------------------------------
\* the entries task t has popped and not yet handed back to reschedule
Pending(t) ==
    IF task[t].pc = "got"
    THEN {task[t].ready[i] : i \in task[t].idx..Len(task[t].ready)}
    ELSE IF task[t].pc = "rs_db"
    THEN {task[t].ready[i] : i \in (task[t].idx + 1)..Len(task[t].ready)}
    ELSE {}

\* a call of get_ready_accounts that has returned and whose caller has not
\* yet rescheduled anything
JustReturned(t) == task[t].pc = "got" /\ task[t].idx = 1

InHeap(a) == \E r \in DOMAIN queues : a \in Range(queues[r])

\* C1: calls of get_ready_accounts on the same region that overlap (neither
\* caller has rescheduled an entry yet) return disjoint sets of entries: no
\* entry is returned by two calls.  Each call being one uninterrupted step,
\* the calls are executed one after another by construction.
C1_DisjointBatches ==
    \A t1, t2 \in Tasks :
        (t1 # t2 /\ JustReturned(t1) /\ JustReturned(t2)
           /\ task[t1].region = task[t2].region)
        => Range(task[t1].ready) \cap Range(task[t2].ready) = {}

\* C2: an entry that was popped and has not yet been pushed back by
\* reschedule is in no region heap and is held by no other task.
C2_PoppedIsExclusive ==
    \A t \in Tasks : \A a \in Pending(t) :
        /\ ~InHeap(a)
        /\ \A t2 \in Tasks \ {t} : a \notin Pending(t2)

\* C3: every region queue is a min-heap on next_fetch_at.
IsMinHeap(q) ==
    \A i \in 2..Len(q) : Key[q[i \div 2]] <= Key[q[i]]

C3_HeapProperty == \A r \in DOMAIN queues : IsMinHeap(queues[r])

\* C4: the result of get_ready_accounts(region, max_count) at time now: at
\* most max_count entries, all due, in non-decreasing next_fetch_at order,
\* none later than an entry left in the heap, and nothing due is left behind
\* unless max_count was reached; the empty list for a region without queue.
ReadyResultOk(ready, heap, key, now, max_count) ==
    /\ Len(ready) <= max_count
    /\ \A i \in 1..Len(ready) : key[ready[i]] <= now
    /\ \A i, j \in 1..Len(ready) : i < j => key[ready[i]] <= key[ready[j]]
    /\ \A i \in 1..Len(ready), j \in 1..Len(heap) : key[ready[i]] <= key[heap[j]]
    /\ Len(ready) < max_count => \A j \in 1..Len(heap) : key[heap[j]] > now

C4_ReadyBatch ==
    [][\A t \in Tasks, r \in Regions, m \in 1..MaxCount :
          get_ready_accounts(t, r, m)
          => IF HasQueue(r)
             THEN ReadyResultOk(task'[t].ready, queues'[r], Key, clock, m)
             ELSE task'[t].ready = <<>>]_vars


\* ------------------------------------------------------------------------
\* The scheduling of one entry: AccountSelector.reschedule applied again and
\* again to an entry created by initialize, under each configuration
\* ------------------------------------------------------------------------
SchedConfigs ==
    {AccountSelectorConfig, TinyConfig, UnorderedConfig, WideCapConfig}

\* activity counters giving the scores 38 and 43
Casual == <<2, 6, 14, NoMatch>>

Regular == <<2, 10, 7, NoMatch>>

SchedActivity == {Dormant, Casual, Regular, Grinder}

\* consecutive_empty_fetches as stored by an earlier run
StoredEmptyFetches == {0, 2}

SchedInit ==
    /\ clock = 0
    /\ cfg \in SchedConfigs
    /\ \E act \in SchedActivity, cef \in StoredEmptyFetches :
          entry = [activity_score |-> ScoreOf(act),
                   tier |-> determine_tier(ScoreOf(act)),
                   next_fetch_at |-> clock,
                   last_fetched_at |-> NoTime,
                   consecutive_empty_fetches |-> cef,
                   region |-> "EUW"]
    /\ calls = <<>>
    /\ initialized = TRUE
    /\ queues = <<>>
    /\ locks = <<>>
    /\ account_map = {}
    /\ acct = [a \in Accounts |-> NoEntry]
    /\ task = [t \in Tasks |-> IdleTask]

\* the last two reschedule calls are remembered: their number, their
\* arguments, the entry they were given, the clock they read and the interval
\* they computed
LastCalls(cs, c) == IF cs = <<>> THEN <<c>> ELSE <<cs[Len(cs)], c>>

CallsMade == IF calls = <<>> THEN 0 ELSE calls[Len(calls)].seq

\* AccountSelector.reschedule(entry, new_matches, data), lines 309-356
reschedule(new_matches, data) ==
    LET res == RescheduleFields(entry, cfg, clock, new_matches, data)
    IN /\ CallsMade < MaxResched
       /\ new_matches = 0 => data = NoData
       /\ entry' = res[1]
       /\ calls' = LastCalls(calls,
                             [seq |-> CallsMade + 1,
                              new_matches |-> new_matches, data |-> data,
                              before |-> entry, now |-> clock,
                              interval |-> res[2]])
       /\ UNCHANGED <<clock, cfg, initialized, queues, locks, account_map,
                      acct, task, rlVars, reqVars, extVars>>

SchedTick ==
    /\ clock < MaxSchedClock
    /\ clock' = clock + 1
    /\ UNCHANGED <<cfg, initialized, queues, locks, account_map, acct, task,
                   schedVars, rlVars, reqVars, extVars>>

SchedNext ==
    \/ \E n \in {0, 1, 5}, d \in {NoData, Grinder} : reschedule(n, d)
    \/ SchedTick

InitSched == SchedInit /\ RlIdle /\ ReqIdle /\ ExtIdle

SpecSched == InitSched /\ [][SchedNext]_vars

\* ------------------------------------------------------------------------
\* Properties of reschedule (SpecSched)
\* ------------------------------------------------------------------------
LastCall == calls[Len(calls)]

\* C5: after reschedule, whatever the fetch found, last_fetched_at = now and
\* next_fetch_at = now + interval with 0 < interval <= max_interval of the
\* tier the entry has after the update; hence next_fetch_at >= last_fetched_at.
C5_RescheduleTimes ==
    calls # <<>> =>
        /\ entry.last_fetched_at = LastCall.now
        /\ entry.next_fetch_at = LastCall.now + LastCall.interval
        /\ 0 < LastCall.interval
        /\ LastCall.interval <= cfg.max[entry.tier]
        /\ entry.next_fetch_at >= entry.last_fetched_at

\* an empty fetch at minute 2 whose backed-off interval was clamped to the cap
C5_Witness ==
    /\ calls # <<>>
    /\ LastCall.new_matches = 0
    /\ LastCall.now = 2
    /\ cfg.base[entry.tier] * 2 > cfg.max[entry.tier]
    /\ entry.next_fetch_at = 2 + cfg.max[entry.tier]

\* the interval of an empty-fetch reschedule is at least the interval of the
\* reschedule before it
EmptyFetchKeepsInterval ==
    Len(calls) = 2 /\ calls[2].new_matches = 0
        => calls[2].interval >= calls[1].interval

\* no tier's cap exceeds the base interval of the next less active tier
CapsBelowNextBase(c) ==
    /\ c.max["very_active"] <= c.base["active"]
    /\ c.max["active"] <= c.base["moderate"]
    /\ c.max["moderate"] <= c.base["inactive"]

\* C6 (as amended): over a run of empty fetches the interval never decreases
\* from one reschedule to the next, even when decay moves the entry into a
\* lower tier, provided no tier's maximum interval exceeds the base interval
\* of the next less active tier.
C6_IntervalMonotone == CapsBelowNextBase(cfg) => EmptyFetchKeepsInterval

\* C6 (as stated): over a run of empty fetches the interval never decreases
\* from one reschedule to the next, under every accepted configuration.
C6_AsStated ==
    validate_priority_intervals(cfg) => EmptyFetchKeepsInterval

\* defaults: a second empty fetch drops the entry from active to moderate
\* and the interval grows from 30 to 120 minutes
C6_Witness ==
    /\ cfg = AccountSelectorConfig
    /\ Len(calls) = 2
    /\ calls[1].new_matches = 0
    /\ calls[2].new_matches = 0
    /\ calls[2].before.tier = "active"
    /\ entry.tier = "moderate"
    /\ calls[1].interval = 30
    /\ calls[2].interval = 120

\* C7: interval = min(base[tier] * min(2^k, 8), max[tier]) where tier is
\* recomputed from the updated score and k is the updated
\* consecutive_empty_fetches (factor 1 when k = 0); a score of 38 boosted by
\* 5 matches becomes 58, active, with the active base interval; with the
\* defaults an inactive entry gets 360 minutes from its fifth empty fetch on.
C7_IntervalFormula ==
    calls # <<>> =>
        LET c == LastCall
            k == IF c.new_matches > 0
                 THEN 0 ELSE c.before.consecutive_empty_fetches + 1
            s == entry.activity_score
            tier == IF s >= 70000 THEN "very_active"
                    ELSE IF s >= 40000 THEN "active"
                    ELSE IF s >= 20000 THEN "moderate" ELSE "inactive"
            factor == IF k = 0 THEN 1 ELSE IF 2 ^ k < 8 THEN 2 ^ k ELSE 8
            product == cfg.base[tier] * factor
        IN /\ entry.consecutive_empty_fetches = k
           /\ entry.tier = tier
           /\ c.interval = IF product < cfg.max[tier] THEN product
                           ELSE cfg.max[tier]
           /\ (c.before.activity_score = 38000 /\ c.new_matches = 5
                  /\ c.data = NoData)
              => /\ s = 58000
                 /\ entry.tier = "active"
                 /\ c.interval = cfg.base["active"]
           /\ (cfg = AccountSelectorConfig /\ c.new_matches = 0 /\ k >= 5
                  /\ entry.tier = "inactive")
              => c.interval = 360

\* the moderate entry at 38 crosses into the active tier on a 5-match boost
C7_Witness ==
    /\ calls # <<>>
    /\ cfg = AccountSelectorConfig
    /\ LastCall.before.activity_score = 38000
    /\ LastCall.before.tier = "moderate"
    /\ LastCall.new_matches = 5
    /\ LastCall.data = NoData
    /\ entry.tier = "active"
    /\ LastCall.interval = 15

\* ------------------------------------------------------------------------
\* RateLimiter (src/worker/src/services/riot_api.py, lines 57-101).
\* time.time() is read in whole seconds; two reads may return the same
\* value.  The lock is held across the sleeps, so a second caller enters
\* only after the first has recorded its request.
\* ------------------------------------------------------------------------
ShortWindowSeconds == 1

LongWindowSeconds == 120

ShortLimits == {1, 2}

LongLimits == {2, 3}

\* deque(maxlen = n).append: a full deque drops its leftmost element
DequeAppend(w, x, maxlen) ==
    IF Len(w) >= maxlen THEN Append(Tail(w), x) ELSE Append(w, x)

\* while window and window[0] < bound: window.popleft()
RECURSIVE Evict(_, _)
Evict(w, bound) ==
    IF w # <<>> /\ w[1] < bound THEN Evict(Tail(w), bound) ELSE w

RlInit ==
    /\ \E s \in ShortLimits, l \in LongLimits :
          rl = [short_limit |-> s, long_limit |-> l, short_window |-> <<>>,
                long_window |-> <<>>, lock |-> None, time |-> 0]
    /\ acq = [t \in Tasks |-> IdleAcq]
    /\ completed = <<>>

\* lines 99-101: record the request and leave the lock
RecordRequest(r, now) ==
    [r EXCEPT !.short_window = DequeAppend(@, now, r.short_limit * 2),
              !.long_window = DequeAppend(@, now, r.long_limit * 2),
              !.lock = None]

\* lines 91-101, with now as last read: <<rl, locals, completed>> after them
LongPhase(t, r, now) ==
    LET wait_time == LongWindowSeconds - (now - r.long_window[1])
    IN IF Len(r.long_window) >= r.long_limit /\ wait_time > 0
       THEN <<[r EXCEPT !.lock = t],
              [pc |-> "long_sleep", now |-> now, wait |-> wait_time],
              completed>>
       ELSE <<RecordRequest(r, now), IdleAcq, Append(completed, now)>>

\* lines 83-101 after the eviction
ShortPhase(t, r, now) ==
    LET wait_time == ShortWindowSeconds - (now - r.short_window[1])
    IN IF Len(r.short_window) >= r.short_limit /\ wait_time > 0
       THEN <<[r EXCEPT !.lock = t],
              [pc |-> "short_sleep", now |-> now, wait |-> wait_time],
              completed>>
       ELSE LongPhase(t, r, now)

\* asyncio.sleep(wait) started at time now returns at now + wait or later
WakeTimes(a, time) ==
    LET due == Max(time, a.now + a.wait) IN {due, due + 1}

RlFrame == UNCHANGED <<selVars, schedVars, reqVars, extVars>>

\* acquire() up to its first sleep, or to its end when it does not sleep
acquire(t) ==
    /\ acq[t].pc = "idle"
    /\ rl.lock = None
    /\ Len(completed) < MaxAcquires
    /\ LET now == rl.time
           r == [rl EXCEPT
                   !.short_window = Evict(@, now - ShortWindowSeconds),
                   !.long_window = Evict(@, now - LongWindowSeconds)]
           res == ShortPhase(t, r, now)
       IN /\ rl' = res[1]
          /\ acq' = [acq EXCEPT ![t] = res[2]]
          /\ completed' = res[3]

\* line 89: the short-term sleep is over and the clock is read again
short_sleep_done(t) ==
    /\ acq[t].pc = "short_sleep"
    /\ \E now \in WakeTimes(acq[t], rl.time) :
          LET res == LongPhase(t, [rl EXCEPT !.time = now], now)
          IN /\ rl' = res[1]
             /\ acq' = [acq EXCEPT ![t] = res[2]]
             /\ completed' = res[3]

\* line 97: the long-term sleep is over and the clock is read again
long_sleep_done(t) ==
    /\ acq[t].pc = "long_sleep"
    /\ \E now \in WakeTimes(acq[t], rl.time) :
          /\ rl' = RecordRequest([rl EXCEPT !.time = now], now)
          /\ acq' = [acq EXCEPT ![t] = IdleAcq]
          /\ completed' = Append(completed, now)

RlTick ==
    /\ rl.time < MaxRlTime
    /\ rl' = [rl EXCEPT !.time = @ + 1]
    /\ UNCHANGED <<acq, completed>>

RlNext ==
    \/ \E t \in Tasks : acquire(t) /\ RlFrame
    \/ \E t \in Tasks : short_sleep_done(t) /\ RlFrame
    \/ \E t \in Tasks : long_sleep_done(t) /\ RlFrame
    \/ RlTick /\ RlFrame

InitRl == SelIdle /\ SchedIdle /\ RlInit /\ ReqIdle /\ ExtIdle

SpecRl == InitRl /\ [][RlNext]_vars

\* the acquires completed at a time in [from, from + len]
CompletedIn(from, len) ==
    {i \in 1..Len(completed) :
        completed[i] >= from /\ completed[i] <= from + len}

\* C8: every window of 1 second holds at most short_limit completed
\* acquires and every window of 120 seconds at most long_limit, the
\* boundaries of the window included.
C8_WindowLimits ==
    \A i \in 1..Len(completed) :
        /\ Cardinality(CompletedIn(completed[i], 1)) <= rl.short_limit
        /\ Cardinality(CompletedIn(completed[i], 120)) <= rl.long_limit

\* ------------------------------------------------------------------------
\* RiotAPIService._request and calculate_backoff_delay
\* (src/worker/src/services/riot_api.py, lines 18-45 and 163-222).
\* Delays are in milliseconds, random.random() in thousandths.
\* ------------------------------------------------------------------------
BACKOFF_BASE_DELAY == 1

BACKOFF_MULTIPLIER == 2

BACKOFF_MAX_DELAY == 60

\* 0.2, in thousandths
BACKOFF_JITTER == 200

BACKOFF_MAX_RETRIES == 5

\* values of random.random(), which lies in [0, 1)
RandomDraws == {0, 250, 500, 750, 999}

\* the Retry-After header: absent, or a number of seconds
RetryAfterValues == {NoTime, 0, 2, 60, 1800}

calculate_backoff_delay(retry_count, retry_after, random) ==
    LET base_delay ==
            IF retry_after # NoTime
            THEN Min(retry_after, BACKOFF_MAX_DELAY)
            ELSE Min(BACKOFF_BASE_DELAY * (BACKOFF_MULTIPLIER ^ retry_count),
                     BACKOFF_MAX_DELAY)
        jitter_factor ==
            1000 - BACKOFF_JITTER + (random * 2 * BACKOFF_JITTER) \div 1000
    IN base_delay * jitter_factor

\* line 191 with the comparison loosened: one retry too many
RetriesExhausted_Late(retry_count) == retry_count > BACKOFF_MAX_RETRIES

\* line 191
RetriesExhausted(retry_count) == retry_count >= BACKOFF_MAX_RETRIES

\* the client of one region, constructed by _get_region_client with a
\* RateLimiter of its own (fetch_matches_v2.py:62-71, riot_api.py:143)
ReqInit ==
    \E r \in Regions : req = [IdleReq EXCEPT !.pc = "acquire", !.limiter = r]

ReqFrame == UNCHANGED <<selVars, schedVars, rlVars, extVars>>

\* line 182: acquire of the client's rate limiter returns (it sleeps at
\* most twice, for a finite time)
limiter_acquire ==
    /\ req.pc = "acquire"
    /\ ~req.granted
    /\ req' = [req EXCEPT !.granted = TRUE, !.acquires = @ + 1,
                          !.used = @ \cup {req.limiter}]

\* an attempt sent without waiting for the limiter
request_acquire_NoWait ==
    /\ req.pc = "acquire"
    /\ req' = [req EXCEPT !.pc = "get", !.attempts = @ + 1,
                          !.granted = FALSE]

\* lines 182-187: once acquire has returned the attempt is sent
request_acquire ==
    /\ req.pc = "acquire"
    /\ req.granted
    /\ req' = [req EXCEPT !.pc = "get", !.attempts = @ + 1,
                          !.granted = FALSE]

\* the request ends with the given outcome: response_status is the status
\* of the response, error_status the status_code of the RiotAPIError raised
Finish(kind, outcome, response_status, error_status) ==
    /\ req.pc = "get"
    /\ req' = [req EXCEPT !.pc = "done", !.last = kind, !.outcome = outcome,
                          !.response_status = response_status,
                          !.error_status = error_status]

\* status codes other than 2xx, 404 and 429
OtherStatuses == {301, 400, 403, 500, 503}

\* line 217: a 2xx response whose body is JSON
response_ok == Finish("ok", "success", 200, NoStatus)

\* lines 218-219: a 2xx response whose body does not parse
response_invalid_json == Finish("invalid_json", "error_500", 200, 500)

\* lines 211-212
response_404 == Finish("404", "error_404", 404, 404)

\* a status error that is retried after a backoff sleep like a 429
response_status_error_Retried(code) ==
    /\ req.pc = "get"
    /\ req' = [req EXCEPT !.pc = "sleep", !.last = "status",
                          !.response_status = code]

\* lines 214, 221-222: raise_for_status raises for any other status that is
\* not 2xx, and the error carries e.response.status_code
response_status_error(code) ==
    Finish("status", "error_status", code, code)

\* line 187: client.get raises (timeout, connection error); not caught
response_transport_error ==
    Finish("transport", "transport_error", NoStatus, NoStatus)

\* lines 189-192: a 429 once the retries are used up
response_429_exhausted ==
    /\ req.pc = "get"
    /\ RetriesExhausted(req.retry_count)
    /\ req' = [req EXCEPT !.pc = "done", !.last = "429", !.n429 = @ + 1,
                          !.outcome = "rate_limited",
                          !.response_status = 429, !.error_status = 429]

\* lines 189-208: a 429 that is retried; the delay is computed and the
\* sleep starts
response_429_retry ==
    /\ req.pc = "get"
    /\ ~RetriesExhausted(req.retry_count)
    /\ \E retry_after \in RetryAfterValues, random \in RandomDraws :
          req' = [req EXCEPT
                    !.pc = "sleep", !.last = "429", !.n429 = @ + 1,
                    !.response_status = 429,
                    !.retry_after = retry_after,
                    !.delay = calculate_backoff_delay(req.retry_count,
                                                      retry_after, random)]

\* lines 208-209: the sleep is over, _request calls itself with
\* _retry_count + 1
backoff_sleep_done ==
    /\ req.pc = "sleep"
    /\ req' = [req EXCEPT !.pc = "acquire", !.sleeps = @ + 1,
                          !.retry_count = @ + 1]

ReqNext ==
    \/ limiter_acquire /\ ReqFrame
    \/ request_acquire /\ ReqFrame
    \/ response_ok /\ ReqFrame
    \/ response_invalid_json /\ ReqFrame
    \/ response_404 /\ ReqFrame
    \/ \E code \in OtherStatuses : response_status_error(code) /\ ReqFrame
    \/ response_transport_error /\ ReqFrame
    \/ response_429_exhausted /\ ReqFrame
    \/ response_429_retry /\ ReqFrame
    \/ backoff_sleep_done /\ ReqFrame

InitReq == SelIdle /\ SchedIdle /\ RlIdle /\ ReqInit /\ ExtIdle

SpecReq == InitReq /\ [][ReqNext]_vars

\* the limiter, the server and the sleep each answer eventually
SpecReqFair == SpecReq /\ WF_vars(ReqNext)

RetryAccounting ==
    /\ req.attempts <= 6
    /\ req.sleeps <= 5
    /\ req.sleeps = req.retry_count
    /\ req.attempts = req.sleeps + (IF req.pc = "acquire" THEN 0 ELSE 1)
    /\ req.n429 = req.sleeps
                  + (IF req.pc = "sleep" THEN 1 ELSE 0)
                  + (IF req.outcome = "rate_limited" THEN 1 ELSE 0)
    /\ req.pc = "done" /\ req.last = "ok" => req.outcome = "success"
    /\ req.pc = "done" /\ req.last = "429"
          => req.outcome = "rate_limited" /\ req.sleeps = 5 /\ req.attempts = 6
    /\ req.outcome = "rate_limited" => req.pc = "done" /\ req.last = "429"

C10_SleepAtMost60 ==
    req.pc = "sleep" => req.delay <= BACKOFF_MAX_DELAY * 1000

\* ------------------------------------------------------------------------
\* Ingest of one match: the loop body of _fetch_account_matches
\* (fetch_matches_v2.py:301-331), _process_match (392-479) and the store
\* operations it awaits (database.py:261-334, 585-666).  Every store
\* operation is its own statement on its own pooled connection
\* (DatabaseService.execute, database.py:103-108); none of them runs inside
\* DatabaseService.transaction.  Two region tasks run concurrently
\* (_run_cycle gathers one _process_region per region key).
\* ------------------------------------------------------------------------
MatchId == "m1"

\* the participants of the match payload, in order; x1 is not tracked
Participants == <<"a1", "a2", "x1">>

TeamOf == [a1 |-> 100, a2 |-> 100, x1 |-> 200]

WinOf == [a1 |-> TRUE, a2 |-> TRUE, x1 |-> FALSE]

\* the tracked account each region task is fetching
TrackedBy == [t1 |-> "a1", t2 |-> "a2"]

\* get_tracked_puuids
TrackedPuuids == Accounts

IdleIng == [pc |-> "idle", i |-> 1, seen |-> {}, runs |-> 0, done |-> 0]

IngInit ==
    /\ store = EmptyStore
    /\ ing = [t \in Tasks |-> IdleIng]

\* the task leaves the loop body; its counters stay
EndIngest(t, completed_ok) ==
    [ing EXCEPT ![t] = [IdleIng EXCEPT
                          !.runs = ing[t].runs,
                          !.done = ing[t].done + (IF completed_ok THEN 1 ELSE 0)]]

\* line 306: match_exists; an existing match is skipped
match_exists(t) ==
    /\ ing[t].pc = "idle"
    /\ ing[t].runs < MaxIngests
    /\ IF MatchId \in store.matches
       THEN ing' = [ing EXCEPT ![t].runs = @ + 1]
       ELSE ing' = [ing EXCEPT ![t].runs = @ + 1, ![t].pc = "get"]
    /\ UNCHANGED store

\* line 311: get_match returns the payload
get_match(t) ==
    /\ ing[t].pc = "get"
    /\ ing' = [ing EXCEPT ![t].pc = "insert_match"]
    /\ UNCHANGED store

\* lines 325-331: get_match raises RiotAPIError, which is logged
get_match_error(t) ==
    /\ ing[t].pc = "get"
    /\ ing' = EndIngest(t, FALSE)
    /\ UNCHANGED store

\* insert_match: INSERT ... ON CONFLICT (match_id) DO NOTHING
insert_match(t) ==
    /\ ing[t].pc = "insert_match"
    /\ store' = [store EXCEPT !.matches = @ \cup {MatchId}]
    /\ ing' = [ing EXCEPT ![t].pc = "stats", ![t].i = 1]

\* insert_match_stats for participant i:
\* INSERT ... ON CONFLICT (match_id, puuid) DO NOTHING
insert_match_stats(t) ==
    /\ ing[t].pc = "stats"
    /\ store' = [store EXCEPT
                   !.stats = @ \cup {<<MatchId, Participants[ing[t].i]>>}]
    /\ ing' = [ing EXCEPT
                 ![t].i = @ + 1,
                 ![t].pc = IF ing[t].i = Len(Participants)
                           THEN "synergy_fetch" ELSE "stats"]

\* update_player_synergies, lines 590-611: the participants are read back
\* from the stats table
synergy_fetch(t) ==
    LET participants == {p \in Range(Participants) :
                            <<MatchId, p>> \in store.stats}
    IN /\ ing[t].pc = "synergy_fetch"
       /\ IF TrackedBy[t] \in participants
          THEN ing' = [ing EXCEPT ![t].pc = "synergy_write",
                                  ![t].seen = participants]
          ELSE ing' = EndIngest(t, TRUE)
       /\ UNCHANGED store

\* the counters one row of the batch adds: <<games_together,
\* wins_together, games_against, wins_against>>
SynergyDelta(our, p) ==
    LET is_ally == TeamOf[p] = TeamOf[our]
    IN <<IF is_ally THEN 1 ELSE 0,
         IF is_ally /\ WinOf[our] THEN 1 ELSE 0,
         IF is_ally THEN 0 ELSE 1,
         IF is_ally THEN 0 ELSE (IF WinOf[our] THEN 1 ELSE 0)>>

\* ON CONFLICT (puuid, ally_puuid) DO UPDATE SET counter = counter + excluded
SynergyUpsert(synergy, our, others) ==
    [k \in DOMAIN synergy \cup {<<our, p>> : p \in others} |->
        IF k[1] = our /\ k[2] \in others
        THEN IF k \in DOMAIN synergy
             THEN [j \in 1..4 |-> synergy[k][j] + SynergyDelta(our, k[2])[j]]
             ELSE SynergyDelta(our, k[2])
        ELSE synergy[k]]

\* update_player_synergies, lines 613-666: one batched upsert for the other
\* tracked participants; _process_match returns its result
synergy_write(t) ==
    LET our == TrackedBy[t]
        others == (ing[t].seen \ {our}) \cap TrackedPuuids
    IN /\ ing[t].pc = "synergy_write"
       /\ store' = [store EXCEPT !.synergy = SynergyUpsert(@, our, others)]
       /\ ing' = EndIngest(t, TRUE)

\* a store operation of _process_match raises, or the task is cancelled
\* while it awaits one: the exception leaves _process_match and
\* _fetch_account_matches (which catches RiotAPIError only)
ingest_interrupted(t) ==
    /\ ing[t].pc \in {"insert_match", "stats", "synergy_fetch", "synergy_write"}
    /\ ing' = EndIngest(t, FALSE)
    /\ UNCHANGED store

IngFrame ==
    UNCHANGED <<selVars, schedVars, rlVars, reqVars, slp, wk, st, db,
                lateVars>>

IngNext ==
    \/ \E t \in Tasks : match_exists(t) /\ IngFrame
    \/ \E t \in Tasks : get_match(t) /\ IngFrame
    \/ \E t \in Tasks : get_match_error(t) /\ IngFrame
    \/ \E t \in Tasks : insert_match(t) /\ IngFrame
    \/ \E t \in Tasks : insert_match_stats(t) /\ IngFrame
    \/ \E t \in Tasks : synergy_fetch(t) /\ IngFrame
    \/ \E t \in Tasks : synergy_write(t) /\ IngFrame
    \/ \E t \in Tasks : ingest_interrupted(t) /\ IngFrame

InitIngest ==
    SelIdle /\ SchedIdle /\ RlIdle /\ ReqIdle /\ IngInit
        /\ SlpIdle /\ WkIdle /\ StIdle /\ DbIdle /\ LateIdle

SpecIngest == InitIngest /\ [][IngNext]_vars

AllStatsRows == {<<MatchId, Participants[i]>> : i \in 1..Len(Participants)}

NoIngestInFlight == \A t \in Tasks : ing[t].pc = "idle"

\* C11: ingest of a match is all-or-nothing: when no ingest is in flight,
\* the match row exists iff all its participant rows exist, and a match
\* whose ingest failed after the match insert leaves no match row, no stat
\* row and no synergy increment.
C11_AllOrNothing ==
    NoIngestInFlight =>
        /\ MatchId \in store.matches <=> AllStatsRows \subseteq store.stats
        /\ MatchId \notin store.matches =>
              store.stats = {} /\ store.synergy = <<>>
        /\ (\A t \in Tasks : ing[t].done = 0) => store = EmptyStore

\* C12: once one ingest of the match has completed, ingesting it again, by
\* the same or by the other tracked account, changes no match row, no stat
\* row and no synergy counter.
C12_ReingestIsNoOp ==
    [][(\E t \in Tasks : ing[t].done > 0) => store' = store]_vars

\* ------------------------------------------------------------------------
\* Error isolation in _process_region (Spec)
\* ------------------------------------------------------------------------
\* C13: whatever error the processing of one popped account meets, the
\* accounts after it in the batch are still processed and rescheduled:
\* _process_region never ends while an account it popped has not been
\* handed to reschedule.
C13_BatchSurvivesError ==
    [][\A t \in Tasks :
          task[t].pc # "idle" /\ task'[t].pc = "idle" => Pending(t) = {}]_vars

\* ------------------------------------------------------------------------
\* FetchMatchesJobV2._calculate_sleep_time (fetch_matches_v2.py:481-504)
\* with AccountSelector.get_soonest_fetch_time (account_selector.py:401-414).
\* Times are in milliseconds.
\* ------------------------------------------------------------------------
\* next_fetch_at at the root of a region queue; NoTime for an empty queue
RootTimes == {NoTime, 0, 950, 1000, 1050, 1100, 3000, 6000, 7000}

\* datetime.now(timezone.utc) at line 498
SleepClock == {1000, 2000}

NoSelectorSleep == 5000

ImmediateSleep == 100

SleepCap == 5000

\* the loop of get_soonest_fetch_time over the regions, in the order given
RECURSIVE SoonestOver(_, _, _)
SoonestOver(roots, regions, soonest) ==
    IF regions = <<>> THEN soonest
    ELSE LET next_time == roots[regions[1]]
         IN SoonestOver(roots, Tail(regions),
                        IF next_time # NoTime
                           /\ (soonest = NoTime \/ next_time < soonest)
                        THEN next_time ELSE soonest)

get_soonest_fetch_time(roots) == SoonestOver(roots, <<"EUW", "NA">>, NoTime)

SleepTimeOf(roots, now) ==
    LET soonest == get_soonest_fetch_time(roots)
    IN IF soonest = NoTime THEN NoSelectorSleep
       ELSE IF soonest <= now THEN ImmediateSleep
       ELSE Min(soonest - now, SleepCap)

SlpInit ==
    \E roots \in [Regions -> RootTimes], now \in SleepClock :
        slp = [pc |-> "call", roots |-> roots, now |-> now, result |-> 0]

calculate_sleep_time ==
    /\ slp.pc = "call"
    /\ slp' = [slp EXCEPT !.pc = "done",
                          !.result = SleepTimeOf(slp.roots, slp.now)]
    /\ UNCHANGED <<selVars, schedVars, rlVars, reqVars, store, ing, wk, st, db,
                lateVars>>

SlpNext == calculate_sleep_time

InitSleep ==
    SelIdle /\ SchedIdle /\ RlIdle /\ ReqIdle /\ IngIdle /\ SlpInit
        /\ WkIdle /\ StIdle /\ DbIdle /\ LateIdle

SpecSleep == InitSleep /\ [][SlpNext]_vars

\* C14: the sleep computed after a cycle lies in [0.1 s, 5 s]; it is the
\* time until the soonest next_fetch_at over all regions, clamped to that
\* range: 0.1 s when that entry is due in less than 0.1 s or already due,
\* 5 s when it is due in more than 5 s.
C14_SleepClamped ==
    slp.pc = "done" =>
        LET due == {slp.roots[r] : r \in Regions} \ {NoTime}
        IN /\ slp.result >= 100
           /\ slp.result <= 5000
           /\ \A soonest \in due :
                 (\A d \in due : soonest <= d) =>
                    LET wait == soonest - slp.now
                    IN slp.result = IF wait < 100 THEN 100
                                    ELSE IF wait > 5000 THEN 5000 ELSE wait

\* ------------------------------------------------------------------------
\* Worker lifecycle: main(), Worker.start, Worker.shutdown (main.py:51-285)
\* and the run loop of the fetch job (fetch_matches_v2.py:73-101,
\* fetch_matches.py:45-64).  Three coroutines share the event loop: main
\* (running start), the shutdown task (wait_for_shutdown) and the fetch task.
\* Each action is the code between two awaits.
\* ------------------------------------------------------------------------
\* Worker.__init__ and the first lines of main() and setup(), up to the
\* await of connect(): no signal handler can run before that await.
WkInit ==
    \E upq \in BOOLEAN :
        wk = [use_priority_queue |-> upq,
              main         |-> "connect",
              running      |-> FALSE,
              event        |-> FALSE,
              signals      |-> 0,
              db           |-> "unconnected",
              is_running   |-> FALSE,
              scheduler    |-> "new",
              job          |-> "none",
              job_running  |-> FALSE,
              ft           |-> "none",
              ft_cancel    |-> FALSE,
              cut          |-> "none",
              sd           |-> "waiting",
              sd_cancels   |-> 0,
              stages       |-> <<>>]

WkFrame ==
    UNCHANGED <<selVars, schedVars, rlVars, reqVars, store, ing, slp, st, db,
                lateVars>>

\* the loop's signal handler (main.py:256-258)
signal_handler ==
    /\ wk.main # "exited"
    /\ wk.signals < MaxSignals
    /\ wk' = [wk EXCEPT !.event = TRUE, !.signals = @ + 1]

\* start() raised: the except clause of main (main.py:279-282)
StartRaises(w) == [w EXCEPT !.main = "await_shutdown", !.event = TRUE]

\* DatabaseService.connect returns or raises (database.py:34-53)
connect ==
    /\ wk.main = "connect"
    /\ \/ wk' = [wk EXCEPT !.main = "sync", !.db = "open"]
       \/ wk' = StartRaises(wk)

\* _sync_champions returns (its exceptions are swallowed), then _setup_jobs
\* runs up to its next await: with use_priority_queue the V2 job is created
\* and its initialize() is awaited (main.py:95-112); otherwise the V1 job and
\* the validate job are created and start() awaits set_worker_running(True).
sync_champions ==
    /\ wk.main = "sync"
    /\ IF wk.use_priority_queue
       THEN wk' = [wk EXCEPT !.job = "v2", !.main = "job_initialize"]
       ELSE wk' = [wk EXCEPT !.job = "v1", !.main = "mark_running"]

\* FetchMatchesJobV2.initialize() returns: the selector is built from the
\* store before the driver starts (or the store raises); the validate job is
\* created and start() awaits set_worker_running(True) (main.py:112-144)
job_initialize ==
    /\ wk.main = "job_initialize"
    /\ \/ /\ wk.db = "open"
          /\ wk' = [wk EXCEPT !.main = "mark_running"]
       \/ wk' = StartRaises(wk)

\* await self.db.set_worker_running(True) (main.py:144)
set_worker_running_true ==
    /\ wk.main = "mark_running"
    /\ \/ /\ wk.db = "open"
          /\ wk' = [wk EXCEPT !.is_running = TRUE, !.main = "log_start"]
       \/ wk' = StartRaises(wk)

\* log_worker_activity, then scheduler.start() and the await of the
\* first validate run (main.py:145-155)
log_worker_started ==
    /\ wk.main = "log_start"
    /\ \/ /\ wk.db = "open"
          /\ wk' = [wk EXCEPT !.scheduler = "started", !.main = "validate"]
       \/ wk' = StartRaises(wk)

\* _run_validate_accounts returns (ValidateAccountsJob.run swallows every
\* exception); the fetch task is created and running is set (main.py:158-172)
validate_done ==
    /\ wk.main = "validate"
    /\ wk' = [wk EXCEPT !.ft = "created", !.running = TRUE, !.main = "loop"]

\* asyncio.sleep(1) returns with running false: start() returns, the finally
\* clause of main cancels the shutdown task and asyncio.run cancels the tasks
\* that are left (main.py:171-172, 284-285, 289).  A task that swallows the
\* first cancellation can be hit by the second one.
start_returns ==
    /\ wk.main = "loop"
    /\ ~wk.running
    /\ \E c \in 1..2 :
        wk' = [wk EXCEPT !.main = "exited",
                         !.sd_cancels = IF wk.sd \in {"done", "cancelled"}
                                        THEN 0 ELSE c,
                         !.ft_cancel = wk.ft \notin {"none", "done"}]

\* await shutdown_task returns, sys.exit(1) (main.py:282-285, 289)
exit_after_error ==
    /\ wk.main = "await_shutdown"
    /\ wk.sd \in {"done", "cancelled"}
    /\ wk' = [wk EXCEPT !.main = "exited",
                        !.ft_cancel = wk.ft \notin {"none", "done"}]

\* scheduler.shutdown(wait=True) in its try block (main.py:207-211);
\* it raises, and is caught, when the scheduler was never started
SchedulerShutdown(w) ==
    [w EXCEPT !.stages = Append(@, "scheduler"),
              !.scheduler = IF @ = "started" THEN "stopped" ELSE @]

\* wait_for_shutdown wakes up; shutdown() up to its first await
\* (main.py:271-273, 176-184, 206-216)
shutdown_begin ==
    /\ wk.sd = "waiting"
    /\ wk.event
    /\ LET w == [wk EXCEPT !.running = FALSE]
       IN IF wk.job # "none"
          THEN wk' = [w EXCEPT !.sd = "stop", !.stages = Append(@, "stop")]
          ELSE wk' = [SchedulerShutdown(w) EXCEPT !.sd = "status"]

\* job.stop() has run; the fetch task is cancelled and awaited
\* (main.py:184, 193-196; fetch_matches_v2.py:99-101)
stop_done ==
    /\ wk.sd = "stop"
    /\ LET w == [wk EXCEPT !.job_running = FALSE]
       IN IF wk.ft # "none"
          THEN wk' = [w EXCEPT !.sd = "cancel_wait",
                               !.stages = Append(@, "cancel"),
                               !.ft_cancel = wk.ft # "done"]
          ELSE wk' = [SchedulerShutdown(w) EXCEPT !.sd = "status"]

\* wait_for(fetch_matches_task) returns or raises (every outcome is caught),
\* then the scheduler is shut down (main.py:196-211)
cancel_wait_done ==
    /\ wk.sd = "cancel_wait"
    /\ wk.ft = "done"
    /\ wk' = [SchedulerShutdown(wk) EXCEPT !.sd = "status"]

\* set_worker_running(False) returns or raises (main.py:214-219)
status_write ==
    /\ wk.sd = "status"
    /\ \/ /\ wk.db = "open"
          /\ wk' = [wk EXCEPT !.is_running = FALSE, !.sd = "log",
                              !.stages = Append(@, "status")]
       \/ wk' = [wk EXCEPT !.sd = "log", !.stages = Append(@, "status")]

\* log_worker_activity returns or raises (main.py:221-229)
log_write ==
    /\ wk.sd = "log"
    /\ wk' = [wk EXCEPT !.sd = "disconnect", !.stages = Append(@, "log")]

\* wait_for(disconnect) returns, times out (force_terminate) or raises
\* (main.py:232-242; database.py:83-92)
disconnect ==
    /\ wk.sd = "disconnect"
    /\ \/ wk' = [wk EXCEPT !.sd = "done", !.stages = Append(@, "close"),
                           !.db = IF @ = "open" THEN "closed" ELSE @]
       \/ /\ wk.db = "open"
          /\ wk' = [wk EXCEPT !.sd = "done", !.db = "closed",
                              !.stages = Append(Append(@, "close"), "terminate")]
       \/ /\ wk.db = "open"
          /\ wk' = [wk EXCEPT !.sd = "done", !.stages = Append(@, "close")]

\* CancelledError is thrown into shutdown() at its current await.  Only the
\* await of the fetch task catches it (main.py:200-201); 'except Exception'
\* does not.  stop() itself never suspends, so a cancellation requested
\* while it runs is delivered at the next await.
shutdown_cancelled ==
    /\ wk.sd_cancels > 0
    /\ wk.sd \in {"cancel_wait", "status", "log", "disconnect"}
    /\ IF wk.sd = "cancel_wait"
       THEN wk' = [SchedulerShutdown(wk) EXCEPT !.sd = "status",
                                                !.sd_cancels = @ - 1]
       ELSE wk' = [wk EXCEPT !.sd = "cancelled", !.sd_cancels = 0]

\* the fetch task runs for the first time: run() sets _running
\* (fetch_matches_v2.py:73-84)
ft_run ==
    /\ wk.ft = "created"
    /\ ~wk.ft_cancel
    /\ wk' = [wk EXCEPT !.ft = "idle", !.job_running = TRUE]

\* the loop over the accounts: 'if not self._running: break', else the next
\* account is taken in hand (fetch_matches_v2.py:168-187)
ft_next_account ==
    /\ wk.ft = "idle"
    /\ ~wk.ft_cancel
    /\ wk.db = "open"
    /\ IF wk.job_running
       THEN wk' = [wk EXCEPT !.ft = "account"]
       ELSE wk' = [wk EXCEPT !.ft = "done"]

\* the first store query of run() raises on a closed pool and run() ends
\* (fetch_matches_v2.py:80-81; fetch_matches.py:74, 57-60)
ft_cycle_error ==
    /\ wk.ft = "idle"
    /\ ~wk.ft_cancel
    /\ wk.db # "open"
    /\ wk' = [wk EXCEPT !.ft = "done"]

\* _process_match: insert_match (fetch_matches_v2.py:405)
ft_insert_match ==
    /\ wk.ft = "account"
    /\ ~wk.ft_cancel
    /\ wk' = [wk EXCEPT !.ft = "wrote_match"]

\* _process_match: insert_match_stats, update_player_synergies
\* (fetch_matches_v2.py:442-473)
ft_insert_stats ==
    /\ wk.ft = "wrote_match"
    /\ ~wk.ft_cancel
    /\ wk' = [wk EXCEPT !.ft = "wrote_stats"]

\* the account's closing writes: reschedule in V2,
\* update_account_last_fetched in V1 (fetch_matches_v2.py:221;
\* fetch_matches.py:133)
ft_account_done ==
    /\ wk.ft \in {"account", "wrote_stats"}
    /\ ~wk.ft_cancel
    /\ wk' = [wk EXCEPT !.ft = "idle"]

\* CancelledError is thrown into the fetch task at its current await; run()
\* catches it and cleans up (fetch_matches_v2.py:92-97)
ft_cancelled ==
    /\ wk.ft_cancel
    /\ wk.ft \notin {"none", "done"}
    /\ wk' = [wk EXCEPT !.ft = "done", !.ft_cancel = FALSE, !.cut = wk.ft]

WkNext ==
    \/ signal_handler /\ WkFrame
    \/ connect /\ WkFrame
    \/ sync_champions /\ WkFrame
    \/ job_initialize /\ WkFrame
    \/ set_worker_running_true /\ WkFrame
    \/ log_worker_started /\ WkFrame
    \/ validate_done /\ WkFrame
    \/ start_returns /\ WkFrame
    \/ exit_after_error /\ WkFrame
    \/ shutdown_begin /\ WkFrame
    \/ stop_done /\ WkFrame
    \/ cancel_wait_done /\ WkFrame
    \/ status_write /\ WkFrame
    \/ log_write /\ WkFrame
    \/ disconnect /\ WkFrame
    \/ shutdown_cancelled /\ WkFrame
    \/ ft_run /\ WkFrame
    \/ ft_next_account /\ WkFrame
    \/ ft_cycle_error /\ WkFrame
    \/ ft_insert_match /\ WkFrame
    \/ ft_insert_stats /\ WkFrame
    \/ ft_account_done /\ WkFrame
    \/ ft_cancelled /\ WkFrame

InitWorker ==
    SelIdle /\ SchedIdle /\ RlIdle /\ ReqIdle /\ IngIdle /\ SlpIdle
        /\ WkInit /\ StIdle /\ DbIdle /\ LateIdle

SpecWorker == InitWorker /\ [][WkNext]_vars

\* C15: a shutdown signal received at any point after the process starts,
\* startup included, makes the shutdown pipeline run and the main loop end;
\* once the shutdown pipeline has completed the worker is not running.
C15_StoppedAfterShutdown ==
    wk.sd = "done" => ~wk.running /\ wk.ft \in {"none", "done"}

\* C16: the shutdown stages are attempted in the order stop, cancel, status,
\* log, close, and whatever fails or times out in one stage, the later stages
\* are still attempted: a pipeline that has ended has attempted the status
\* write, the log line and the closing of the pool.
C16_AllStagesAttempted ==
    wk.sd \in {"done", "cancelled"} =>
        \E i, j, k \in 1..Len(wk.stages) :
            /\ i < j /\ j < k
            /\ wk.stages[i] = "status"
            /\ wk.stages[j] = "log"
            /\ wk.stages[k] = "close"
            /\ \A n \in 1..Len(wk.stages) :
                  wk.stages[n] \in {"stop", "cancel"} => n < i

\* C17: the fetch task is cancelled only between two accounts: cancellation
\* never hits an account between its first store write and its closing write.
C17_CancelBetweenAccounts ==
    wk.cut \notin {"wrote_match", "wrote_stats"}

\* ------------------------------------------------------------------------
\* Settings and its four 'after' validators (config.py:40-184, 215).
\* Thresholds are floats: NaN is a value of the type, and every comparison
\* with it is false.  Intervals are ints (minutes).
\* ------------------------------------------------------------------------
NaN == -999999

FloatGt(a, b) == a # NaN /\ b # NaN /\ a > b

FloatLe(a, b) == a # NaN /\ b # NaN /\ a <= b

ThresholdValues == {NaN, 0, 20, 40, 100, 101}

Secrets == {"", "set"}

\* (base, max) of one tier
IntervalPairs == {<<0, 9>>, <<2, 9>>, <<4, 9>>, <<10, 9>>}

IntervalTiers == <<"very_active", "active", "moderate", "inactive">>

SettingsInputs ==
    [database_url : Secrets, riot_api_key : Secrets,
     priority_tier_very_active : ThresholdValues,
     priority_tier_active : ThresholdValues,
     priority_tier_moderate : ThresholdValues,
     intervals : [Range(IntervalTiers) -> IntervalPairs]]

\* each validator: TRUE when it raises ValueError
validate_required_secrets(s) ==
    s.database_url = "" \/ s.riot_api_key = ""

validate_priority_tiers(s) ==
    LET tiers == <<s.priority_tier_very_active, s.priority_tier_active,
                   s.priority_tier_moderate>>
    IN \/ \E i \in 1..3 : FloatGt(tiers[i], 100)
       \/ FloatLe(s.priority_tier_moderate, 0)
       \/ \E i \in 1..2 : FloatLe(tiers[i], tiers[i + 1])

validate_settings_intervals(s) ==
    \E t \in Range(IntervalTiers) :
        LET base == s.intervals[t][1]
            max_val == s.intervals[t][2]
        IN base > max_val \/ base <= 0

\* TRUE when the warning is issued
validate_interval_ordering(s) ==
    \E i \in 1..3 :
        s.intervals[IntervalTiers[i]][1] > s.intervals[IntervalTiers[i + 1]][1]

StInit ==
    \E s \in SettingsInputs :
        st = [pc |-> "call", input |-> s, result |-> None, warned |-> FALSE,
              score |-> 0, tier |-> None]

\* settings = Settings(): the validators run in the order of their definition
Settings ==
    /\ st.pc = "call"
    /\ LET s == st.input
           raised == validate_required_secrets(s)
                        \/ validate_priority_tiers(s)
                        \/ validate_settings_intervals(s)
       IN st' = [st EXCEPT !.pc = "done",
                           !.result = IF raised THEN "rejected" ELSE "accepted",
                           !.warned = ~raised /\ validate_interval_ordering(s)]
    /\ UNCHANGED <<selVars, schedVars, rlVars, reqVars, store, ing, slp, wk, db,
                lateVars>>

StNext == Settings

InitSettings ==
    SelIdle /\ SchedIdle /\ RlIdle /\ ReqIdle /\ IngIdle /\ SlpIdle /\ WkIdle
        /\ StInit /\ DbIdle /\ LateIdle

SpecSettings == InitSettings /\ [][StNext]_vars

\* C18: Settings construction is rejected exactly when database_url or
\* riot_api_key is empty, a tier threshold exceeds 100, the moderate
\* threshold is <= 0, the thresholds are not strictly descending, or a
\* tier's base interval is <= 0 or greater than its max interval; base
\* intervals that are not ascending only produce a warning.
C18_SettingsValidation ==
    st.pc = "done" =>
        LET s == st.input
            va == s.priority_tier_very_active
            ac == s.priority_tier_active
            mo == s.priority_tier_moderate
            descending == FloatGt(va, ac) /\ FloatGt(ac, mo)
            invalid ==
                \/ s.database_url = "" \/ s.riot_api_key = ""
                \/ FloatGt(va, 100) \/ FloatGt(ac, 100) \/ FloatGt(mo, 100)
                \/ FloatLe(mo, 0)
                \/ ~descending
                \/ \E t \in Range(IntervalTiers) :
                      s.intervals[t][1] <= 0 \/ s.intervals[t][1] > s.intervals[t][2]
        IN /\ st.result = "rejected" <=> invalid
           /\ st.warned => st.result = "accepted"

\* ------------------------------------------------------------------------
\* The scheduler and the account table of the store during one cycle of the
\* driver: one _process_region task on region EUW, the rows lol_accounts /
\* players behind it (database.py:783-827, 917-950), validation of pending
\* accounts and deactivation of players.  The cycle is short against the
\* minute the clock counts in.
\* ------------------------------------------------------------------------
StoreTask == "t1"

StoreRegion == "EUW"

NoPriority ==
    [written |-> FALSE, activity_score |-> 0, tier |-> "inactive",
     next_fetch_at |-> NoTime, consecutive_empty_fetches |-> 0]

\* every player is active at startup; a1 has its puuid, a2 has it or is
\* pending validation
DbInit ==
    \E v \in BOOLEAN :
        db = [active    |-> [a \in Accounts |-> TRUE],
              has_puuid |-> [a \in Accounts |-> a = "a1" \/ v],
              priority  |-> [a \in Accounts |-> NoPriority],
              restarts  |-> 0]

\* WHERE p.is_active = true AND a.puuid IS NOT NULL (database.py:824)
ActiveRows == {a \in Accounts : db.active[a] /\ db.has_puuid[a]}

\* activity data get_account_activity_data may return after a fetch
StoreActivity == {NoData, Casual, Regular, Grinder}

StoreFrame ==
    UNCHANGED <<schedVars, rlVars, reqVars, store, ing, slp, wk, st,
                lateVars>>

\* initialize loads the rows the query returns
store_initialize ==
    /\ initialize
    /\ account_map' = ActiveRows
    /\ UNCHANGED db

\* ValidateAccountsJob._validate_account stores the puuid; the validated
\* account is handed to add_account
validate_account(a) ==
    /\ ~db.has_puuid[a]
    /\ db' = [db EXCEPT !.has_puuid[a] = TRUE]
    /\ add_account(a, StoreRegion)

\* the player's is_active flag is cleared by the administration backend
deactivate_player(a) ==
    /\ initialized
    /\ db.active[a]
    /\ db' = [db EXCEPT !.active[a] = FALSE]
    /\ UNCHANGED selVars

\* update_account_priority has written the row (database.py:936-950), then
\* reschedule returns
\* an update_account_priority that leaves the stored counter as it was
store_reschedule_persisted_StaleCounter ==
    LET a == task[StoreTask].ready[task[StoreTask].idx]
    IN /\ reschedule_persisted(StoreTask)
       /\ db' = [db EXCEPT !.priority[a] =
                    [written |-> TRUE,
                     activity_score |-> acct[a].activity_score,
                     tier |-> acct[a].tier,
                     next_fetch_at |-> acct[a].next_fetch_at,
                     consecutive_empty_fetches |->
                        db.priority[a].consecutive_empty_fetches]]

store_reschedule_persisted ==
    LET a == task[StoreTask].ready[task[StoreTask].idx]
    IN /\ reschedule_persisted(StoreTask)
       /\ db' = [db EXCEPT !.priority[a] =
                    [written |-> TRUE,
                     activity_score |-> acct[a].activity_score,
                     tier |-> acct[a].tier,
                     next_fetch_at |-> acct[a].next_fetch_at,
                     consecutive_empty_fetches |->
                        acct[a].consecutive_empty_fetches]]

StoreNext ==
    \/ store_initialize /\ StoreFrame
    \/ \E a \in Accounts : validate_account(a) /\ StoreFrame
    \/ \E a \in Accounts : deactivate_player(a) /\ StoreFrame
    \/ \E m \in 1..MaxCount :
          get_ready_accounts(StoreTask, StoreRegion, m) /\ UNCHANGED db /\ StoreFrame
    \/ \E n \in NewMatches, d \in StoreActivity, f \in BOOLEAN :
          process_account(StoreTask, n, d, f) /\ UNCHANGED db /\ StoreFrame
    \/ store_reschedule_persisted /\ StoreFrame
    \/ reschedule_failed(StoreTask) /\ UNCHANGED db /\ StoreFrame
    \/ process_region_raises(StoreTask) /\ UNCHANGED db /\ StoreFrame
    \/ process_region_return(StoreTask) /\ UNCHANGED db /\ StoreFrame

InitStore ==
    SelInit /\ SchedIdle /\ RlIdle /\ ReqIdle /\ IngIdle /\ SlpIdle /\ WkIdle
        /\ StIdle /\ DbInit /\ LateIdle

SpecStore == InitStore /\ [][StoreNext]_vars

\* the entries of the region queues
Queued == UNION {Range(queues[r]) : r \in DOMAIN queues}

\* C19: every entry in a region queue refers to an account that has a puuid
\* and whose player is active; once a player is marked inactive the entry is
\* gone from its region queue and from the index.
C19_QueuedAreActive ==
    \A a \in Accounts :
        a \in Queued \/ a \in account_map => db.has_puuid[a] /\ db.active[a]

\* tier and score agree by the thresholds 70, 40 and 20
TierRelation(score, tier) ==
    /\ tier = "very_active" <=> score >= 70000
    /\ tier = "active" <=> (40000 <= score /\ score < 70000)
    /\ tier = "moderate" <=> (20000 <= score /\ score < 40000)
    /\ tier = "inactive" <=> score < 20000

\* C20: every entry created or updated by initialize, add_account or
\* reschedule has tier = determine_tier(activity_score), and so has every
\* (score, tier) pair reschedule wrote to the store.
C20_TierFollowsScore ==
    /\ \A a \in account_map : TierRelation(acct[a].activity_score, acct[a].tier)
    /\ \A a \in Accounts :
          db.priority[a].written =>
              TierRelation(db.priority[a].activity_score, db.priority[a].tier)

\* an entry loaded by initialize and one added after validation are
\* scheduled, and a reschedule has written a score that sits on a threshold
C20_Witness ==
    /\ account_map = Accounts
    /\ \E a \in Accounts :
          /\ db.priority[a].written
          /\ db.priority[a].activity_score = 20000
          /\ db.priority[a].tier = "moderate"
          /\ acct[a].tier = "moderate"
    /\ \E a \in Accounts : acct[a].tier = "very_active"

(***************************************************************************)
(* ActivityScorer.apply_empty_fetch_decay and apply_match_boost applied    *)
(* to one score.  The score starts anywhere in [0, 100] (thousandths of a  *)
(* point) and each step applies one of the two functions to it.            *)
(***************************************************************************)

\* most scorer calls applied to one score
MaxScoreCalls == 3

\* largest number of new matches given to apply_match_boost
MaxBoostMatches == 5

ScoreInputs == {0, 1, 19999, 20000, 69999, 80000, 80001, 99999, 100000}

ScInit == sc = [score |-> None, prev |-> None, op |-> "none", k |-> 0, n |-> 0]

score_start ==
    /\ sc.op = "none"
    /\ \E s \in ScoreInputs : sc' = [sc EXCEPT !.score = s, !.op = "start"]

score_decay ==
    /\ sc.op # "none"
    /\ sc.n < MaxScoreCalls
    /\ sc' = [score |-> apply_empty_fetch_decay(sc.score), prev |-> sc.score,
              op |-> "decay", k |-> 0, n |-> sc.n + 1]

score_boost(k) ==
    /\ sc.op # "none"
    /\ sc.n < MaxScoreCalls
    /\ sc' = [score |-> apply_match_boost(sc.score, k), prev |-> sc.score,
              op |-> "boost", k |-> k, n |-> sc.n + 1]

ScFrame == UNCHANGED <<selVars, schedVars, rlVars, reqVars, store, ing, slp,
                       wk, st, db, fa, cy, tailVars>>

ScNext ==
    \/ score_start /\ ScFrame
    \/ score_decay /\ ScFrame
    \/ \E k \in 0..MaxBoostMatches : score_boost(k) /\ ScFrame

InitScore == SelIdle /\ SchedIdle /\ RlIdle /\ ReqIdle /\ IngIdle /\ SlpIdle
        /\ WkIdle /\ StIdle /\ DbIdle /\ ScInit /\ FaIdle /\ CyIdle /\ TailIdle

SpecScore == InitScore /\ [][ScNext]_vars

\* C21: for a score s in [0, 100] and k >= 0 new matches, the decay gives a
\* value in [0, s] and maps 0 to 0, the boost gives a value in [s, 100] that
\* exceeds s by min(5k, 20) unless the cap of 100 cuts it; every result stays
\* in [0, 100].
C21_DecayAndBoostBounded ==
    /\ sc.op # "none" => sc.score \in 0..100000
    /\ sc.op = "decay" =>
          /\ sc.score <= sc.prev
          /\ sc.score >= 0
          /\ (sc.prev = 0 => sc.score = 0)
    /\ sc.op = "boost" =>
          /\ sc.score >= sc.prev
          /\ sc.score <= 100000
          /\ sc.score = Min(100000, sc.prev + Min(5000 * sc.k, 20000))
          /\ sc.score - sc.prev <= 20000

\* a decayed score was boosted by five matches and the cap of 100 cut the
\* boost of 20
C21_Witness ==
    /\ sc.op = "boost"
    /\ sc.k = 5
    /\ sc.n >= 2
    /\ sc.score = 100000
    /\ sc.prev > 80000
    /\ sc.prev < 100000

\* ------------------------------------------------------------------------
\* The queues at the end of a driver cycle (Spec)
\* ------------------------------------------------------------------------
\* number of positions of the region queues that hold entry a
Copies(a) ==
    LET RECURSIVE Sum(_)
        Sum(rs) ==
            IF rs = {} THEN 0
            ELSE LET r == CHOOSE x \in rs : TRUE
                 IN Cardinality({i \in 1..Len(queues[r]) : queues[r][i] = a})
                        + Sum(rs \ {r})
    IN Sum(DOMAIN queues)

\* every _process_region task gathered by _run_cycle has ended
CycleEnded == \A t \in Tasks : task[t].pc = "idle"

\* C22: at the end of a driver cycle every account of the index is in its
\* region queue exactly once: none was dropped by a region task that failed
\* part-way, none is queued twice.
C22_IndexedQueuedOnce ==
    CycleEnded => \A a \in account_map : Copies(a) = 1

\* the account a _process_region task is processing
Current(t) == task[t].ready[task[t].idx]

\* C23: when the processing of a popped account ends in an error, the failure
\* of the priority write-back included, the account is rescheduled exactly
\* once: after reschedule has counted, decayed and pushed the entry for this
\* pass of the loop, the task handling it does not change the entry or the
\* queues again before it leaves the account.
C23_RescheduledOnceOnError ==
    [][\A t \in Tasks :
          (task[t].pc = "rs_db" /\ task'[t] # task[t])
          => /\ acct'[Current(t)] = acct[Current(t)]
             /\ queues' = queues]_vars

\* ------------------------------------------------------------------------
\* The empty-fetch counter in reschedule (SpecSched)
\* ------------------------------------------------------------------------
\* C24: a reschedule with new_matches > 0 sets consecutive_empty_fetches to 0
\* and, when no fresh counters are given, does not lower the score; one with
\* new_matches = 0 adds exactly 1 to the counter and replaces the score by
\* its decayed value (95 %); nothing else resets the counter, a downward tier
\* change in particular does not.
C24_EmptyFetchCounter ==
    calls # <<>> =>
        LET c == LastCall
            old == c.before
        IN /\ c.new_matches > 0 =>
                /\ entry.consecutive_empty_fetches = 0
                /\ c.data = NoData => entry.activity_score >= old.activity_score
           /\ c.new_matches = 0 =>
                /\ entry.consecutive_empty_fetches
                      = old.consecutive_empty_fetches + 1
                /\ entry.activity_score * 100 <= old.activity_score * 95
                /\ entry.activity_score * 100 > old.activity_score * 95 - 100
           /\ entry.consecutive_empty_fetches = 0 => c.new_matches > 0

\* an empty fetch took an active entry down to moderate and the counter went
\* on counting
C24_Witness ==
    /\ calls # <<>>
    /\ LastCall.new_matches = 0
    /\ LastCall.before.tier = "active"
    /\ entry.tier = "moderate"
    /\ LastCall.before.consecutive_empty_fetches >= 1
    /\ entry.consecutive_empty_fetches
          = LastCall.before.consecutive_empty_fetches + 1

(***************************************************************************)
(* FetchMatchesJobV2._fetch_account_matches (fetch_matches_v2.py:265-390)  *)
(* for one popped account, with the part of _process_region that calls it  *)
(* and reschedules the account (lines 186-250).  Every await on the store  *)
(* may raise; a request to the API either returns or raises RiotAPIError.  *)
(***************************************************************************)

\* longest list get_match_ids returns
MaxMatchIds == 2

MatchIdSet == {"m1", "m2", "m3"}

\* championId of the tracked participant and gameStartTimestamp of a match
ChampionOf == [m1 |-> "Annie", m2 |-> "Olaf", m3 |-> "Annie"]

GameStartOf == [m1 |-> 30, m2 |-> 10, m3 |-> 20]

\* lists of distinct match ids, newest first or in any other order
MatchIdLists ==
    {<<>>} \cup
    UNION {{l \in [1..n -> MatchIdSet] : \A i, j \in 1..n : i # j => l[i] # l[j]}
              : n \in 1..MaxMatchIds}

LatestStart(ms) ==
    IF ms = {} THEN NoTime
    ELSE CHOOSE x \in {GameStartOf[m] : m \in ms} :
             \A m \in ms : GameStartOf[m] <= x

\* fetch_matches_v2.py:24
DEFAULT_START_TIME == 1735689600

\* the literal of line 281 (01/01/2020)
MinValidTimestamp == 1577836800

\* account.last_match_at.timestamp() raises OSError or ValueError
TimestampError == -2

\* account.last_match_at in whole epoch seconds; NoTime for None
LastMatchInputs ==
    {NoTime, TimestampError, 0, MinValidTimestamp, MinValidTimestamp + 1,
     1700000000, DEFAULT_START_TIME - 1, DEFAULT_START_TIME,
     DEFAULT_START_TIME + 1, 1800000000}

\* start_time of lines 277-286
StartTimeOf(last_match_at) ==
    IF last_match_at # NoTime
    THEN IF last_match_at = TimestampError
         THEN DEFAULT_START_TIME
         ELSE LET ts == last_match_at
              IN IF ts > MinValidTimestamp THEN ts ELSE DEFAULT_START_TIME
    ELSE DEFAULT_START_TIME

IdleFetch ==
    [pc |-> "idle", running |-> TRUE, listed |-> FALSE, ids |-> <<>>, i |-> 1,
     account_last_match_at |-> NoTime, start_time |-> NoTime,
     stored |-> {}, examined |-> {}, ingested |-> {}, new_matches |-> 0,
     champions_to_update |-> {}, latest_game_start |-> NoTime,
     api_errors |-> {}, failed_at |-> 0, post_failed |-> FALSE,
     league |-> "none", daily |-> "none", streak |-> FALSE,
     champion_stats |-> {}, last_match_at |-> NoTime,
     logged |-> FALSE, resched |-> <<>>]

\* the store holds any of the matches before the account is fetched
FaInit ==
    \E st0 \in SUBSET MatchIdSet, lm \in LastMatchInputs :
        fa = [IdleFetch EXCEPT !.stored = st0, !.account_last_match_at = lm]

FaFrame == UNCHANGED <<selVars, schedVars, rlVars, reqVars, store, ing, slp,
                       wk, st, db, sc, cy, tailVars>>

\* stop(): self._running = False (fetch_matches_v2.py:99-101)
fetch_stop ==
    /\ fa.running
    /\ fa.pc \in {"loop", "league", "daily"}
    /\ fa' = [fa EXCEPT !.running = FALSE]

\* a listing without the early return of lines 296-297
get_match_ids_NoEarlyReturn(ids) ==
    /\ fa.pc = "idle"
    /\ fa' = [fa EXCEPT !.listed = TRUE, !.ids = ids, !.pc = "loop",
                        !.start_time = StartTimeOf(fa.account_last_match_at)]

\* start_time is computed and get_match_ids returns (lines 277-299); an
\* empty list returns 0 at once
get_match_ids(ids) ==
    /\ fa.pc = "idle"
    /\ fa' = [fa EXCEPT !.listed = TRUE, !.ids = ids,
                        !.start_time = StartTimeOf(fa.account_last_match_at),
                        !.pc = IF ids = <<>> THEN "returned" ELSE "loop"]

\* get_match_ids raises RiotAPIError: logged at lines 376-388, 0 returned
get_match_ids_error ==
    /\ fa.pc = "idle"
    /\ fa' = [fa EXCEPT !.pc = "returned",
                        !.start_time = StartTimeOf(fa.account_last_match_at)]

InLoop == fa.pc = "loop" /\ fa.i <= Len(fa.ids) /\ fa.running

\* match_exists is true: continue (lines 305-307)
match_skipped ==
    /\ InLoop
    /\ fa.ids[fa.i] \in fa.stored
    /\ fa' = [fa EXCEPT !.examined = @ \cup {fa.ids[fa.i]}, !.i = @ + 1]

\* get_match and _process_match succeed (lines 310-323); tracked = FALSE:
\* _process_match stored the match and returned None
match_ingested(tracked) ==
    /\ InLoop
    /\ fa.ids[fa.i] \notin fa.stored
    /\ LET id == fa.ids[fa.i]
       IN fa' = IF tracked
                THEN [fa EXCEPT
                        !.examined = @ \cup {id}, !.stored = @ \cup {id},
                        !.ingested = @ \cup {id}, !.new_matches = @ + 1,
                        !.champions_to_update = @ \cup {ChampionOf[id]},
                        !.latest_game_start =
                            IF @ = NoTime \/ GameStartOf[id] > @
                            THEN GameStartOf[id] ELSE @,
                        !.i = @ + 1]
                ELSE [fa EXCEPT
                        !.examined = @ \cup {id}, !.stored = @ \cup {id},
                        !.i = @ + 1]

\* get_match raises RiotAPIError: logged, next match id (lines 325-331)
match_api_error ==
    /\ InLoop
    /\ fa.ids[fa.i] \notin fa.stored
    /\ fa' = [fa EXCEPT !.examined = @ \cup {fa.ids[fa.i]},
                        !.api_errors = @ \cup {fa.ids[fa.i]}, !.i = @ + 1]

\* a store error handled like an API error: logged, next match id
match_store_error_Continues ==
    /\ InLoop
    /\ fa' = [fa EXCEPT !.examined = @ \cup {fa.ids[fa.i]},
                        !.failed_at = fa.i, !.i = @ + 1]

\* match_exists or a store call of _process_match raises: neither the inner
\* handler (RiotAPIError, line 325) nor the outer one (line 376) catches it
match_store_error ==
    /\ InLoop
    /\ fa' = [fa EXCEPT !.examined = @ \cup {fa.ids[fa.i]},
                        !.failed_at = fa.i, !.pc = "raised"]

\* the for loop ends, by exhaustion or by the break of lines 302-303
loop_ends ==
    /\ fa.pc = "loop"
    /\ fa.i > Len(fa.ids) \/ ~fa.running
    /\ fa' = [fa EXCEPT !.pc = "league"]

\* get_league_entries_by_puuid returns, or raises RiotAPIError which is
\* logged (lines 339-348)
league_entries(ok) ==
    /\ fa.pc = "league"
    /\ fa' = [fa EXCEPT !.league = IF ok THEN "snapshot" ELSE "failed",
                        !.pc = "daily"]

\* update_daily_stats for today and for the other dates (lines 350-356)
update_daily_stats ==
    /\ fa.pc = "daily"
    /\ fa' = [fa EXCEPT !.daily = IF fa.league = "snapshot"
                                  THEN "snapshot" ELSE "norank",
                        !.pc = IF fa.new_matches > 0 THEN "streak"
                               ELSE "returned"]

\* update_streak, update_champion_stats for each champion and
\* update_account_last_match (lines 358-366)
update_streak ==
    /\ fa.pc = "streak"
    /\ fa' = [fa EXCEPT !.streak = TRUE, !.pc = "champions"]

update_champion_stats ==
    /\ fa.pc = "champions"
    /\ fa' = [fa EXCEPT !.champion_stats = fa.champions_to_update,
                        !.pc = "last_match"]

update_account_last_match ==
    /\ fa.pc = "last_match"
    /\ fa' = [fa EXCEPT !.last_match_at = fa.latest_game_start,
                        !.pc = "returned"]

\* one of the store calls of lines 350-366 raises
aggregate_store_error ==
    /\ fa.pc \in {"daily", "streak", "champions", "last_match"}
    /\ fa' = [fa EXCEPT !.post_failed = TRUE, !.pc = "raised"]

\* _process_region after the return: the store calls of lines 196-218 and
\* reschedule(account, new_matches, activity_data) up to its write-back
caller_reschedule ==
    /\ fa.pc = "returned"
    /\ fa' = [fa EXCEPT !.resched = Append(@, fa.new_matches), !.pc = "rs_db"]

\* the except handler of _process_region (lines 223-250): the error is
\* logged and reschedule(account, 0) called. It is entered by an exception
\* of _fetch_account_matches, of a store call of lines 196-218, or of the
\* write-back of the reschedule of line 221
caller_handler ==
    /\ fa.pc \in {"raised", "returned", "rs_db"}
    /\ fa' = [fa EXCEPT !.logged = TRUE, !.resched = Append(@, 0),
                        !.pc = "rs_db_handler"]

\* the write-back of reschedule returns, or raises inside the handler and
\* leaves _process_region
reschedule_returns ==
    /\ fa.pc \in {"rs_db", "rs_db_handler"}
    /\ fa' = [fa EXCEPT !.pc = "done"]

FaNext ==
    \/ fetch_stop /\ FaFrame
    \/ \E ids \in MatchIdLists : get_match_ids(ids) /\ FaFrame
    \/ get_match_ids_error /\ FaFrame
    \/ match_skipped /\ FaFrame
    \/ \E tracked \in BOOLEAN : match_ingested(tracked) /\ FaFrame
    \/ match_api_error /\ FaFrame
    \/ match_store_error /\ FaFrame
    \/ loop_ends /\ FaFrame
    \/ \E ok \in BOOLEAN : league_entries(ok) /\ FaFrame
    \/ update_daily_stats /\ FaFrame
    \/ update_streak /\ FaFrame
    \/ update_champion_stats /\ FaFrame
    \/ update_account_last_match /\ FaFrame
    \/ aggregate_store_error /\ FaFrame
    \/ caller_reschedule /\ FaFrame
    \/ caller_handler /\ FaFrame
    \/ reschedule_returns /\ FaFrame

InitFetch == SelIdle /\ SchedIdle /\ RlIdle /\ ReqIdle /\ IngIdle /\ SlpIdle
        /\ WkIdle /\ StIdle /\ DbIdle /\ ScIdle /\ FaInit /\ CyIdle /\ TailIdle

SpecFetch == InitFetch /\ [][FaNext]_vars

\* the match ids the loop has looked at are the first n of the list
ExaminedUpTo(n) == fa.examined = {fa.ids[j] : j \in 1..n}

\* C25 as stated: a store error while ingesting one match id does not end
\* the account's cycle; the loop continues with the next match id, so that
\* without a shutdown every listed id has been looked at when the account is
\* done.
C25_AsStated ==
    (fa.pc = "done" /\ fa.failed_at > 0 /\ fa.running)
    => fa.examined = Range(fa.ids)

\* C25, amended: a store error while ingesting one match id ends the fetch
\* of that account: no later id of the list is looked at, no rank is
\* requested and no aggregate written, the handler of _process_region logs
\* the error and calls reschedule(account, 0).  An API error of get_match
\* is the one that is recorded inside the loop, which goes on with the next
\* id.
C25_StoreErrorEndsAccount ==
    /\ fa.failed_at > 0 =>
          /\ fa.pc \in {"raised", "rs_db_handler", "done"}
          /\ ExaminedUpTo(fa.failed_at)
          /\ fa.league = "none" /\ fa.daily = "none" /\ ~fa.streak
          /\ fa.pc # "raised" => fa.logged /\ fa.resched = <<0>>
    /\ \A j \in 1..Len(fa.ids) : fa.ids[j] \in fa.api_errors => fa.i > j
    /\ (fa.pc = "done" /\ fa.listed /\ fa.running /\ fa.failed_at = 0)
       => fa.examined = Range(fa.ids)

\* the store failed on the first of two listed ids; the second was never
\* looked at and the account was rescheduled with 0 matches
C25_Witness ==
    /\ fa.pc = "done"
    /\ Len(fa.ids) = 2
    /\ fa.failed_at = 1
    /\ fa.ids[2] \notin fa.examined
    /\ fa.resched = <<0>>

\* C26: when at least one new match was ingested for the account, then by
\* the time the account has been rescheduled its streak was recomputed, the
\* champion aggregate of every distinct champion of the ingested matches was
\* recomputed, last_match_at is the latest start time among them, and the
\* account was rescheduled once with that number of matches, also when a
\* later match id failed.
C26_AggregatesAfterIngest ==
    (fa.pc = "done" /\ fa.ingested # {})
    => /\ fa.streak
       /\ fa.champion_stats = {ChampionOf[m] : m \in fa.ingested}
       /\ fa.last_match_at = LatestStart(fa.ingested)
       /\ fa.resched = <<Cardinality(fa.ingested)>>

C28_AcquirePerAttempt ==
    /\ req.acquires = req.attempts + (IF req.granted THEN 1 ELSE 0)
    /\ req.pc \in {"get", "sleep", "done"} =>
          /\ req.acquires = req.attempts
          /\ req.attempts = req.retry_count + 1
    /\ req.used \subseteq {req.limiter}

\* the third attempt, after two 429 responses, is in flight behind its own
\* acquire
C28_Witness ==
    /\ req.pc = "get"
    /\ req.n429 = 2
    /\ req.attempts = 3
    /\ req.acquires = 3
    /\ req.used = {req.limiter}

\* the responses that end a request with an error at once
TerminalKinds == {"404", "status", "invalid_json"}

\* C29: a 404 ends the request at once with an error of status 404, any
\* other status that is neither 2xx nor 429 ends it at once with an error of
\* that status, and a 2xx whose body is not valid JSON ends it with an error
\* of status 500; none of them causes a retry or a backoff sleep: attempts
\* and sleeps are those of the 429 responses alone.
C29_TerminalResponses ==
    req.last \in TerminalKinds =>
        /\ req.pc = "done"
        /\ req.last = "404" =>
              req.response_status = 404 /\ req.error_status = 404
        /\ req.last = "status" =>
              /\ req.response_status \in OtherStatuses
              /\ req.error_status = req.response_status
        /\ req.last = "invalid_json" =>
              req.response_status = 200 /\ req.error_status = 500
        /\ req.attempts = req.n429 + 1
        /\ req.sleeps = req.n429
        /\ req.retry_count = req.n429

\* a 503 after one retried 429 ended the request with an error of status 503
C29_Witness ==
    /\ req.pc = "done"
    /\ req.last = "status"
    /\ req.response_status = 503
    /\ req.error_status = 503
    /\ req.n429 = 1
    /\ req.attempts = 2

(***************************************************************************)
(* The driver loop FetchMatchesJobV2.run (fetch_matches_v2.py:73-97) and   *)
(* one cycle, _run_cycle (lines 109-150): a _process_region task per       *)
(* region queue, gathered with return_exceptions=True.                     *)
(***************************************************************************)

\* most cycles the driver loop runs
MaxCycles == 2

\* (matches, accounts) a region task returns
RegionResults == {<<0, 0>>, <<0, 1>>, <<2, 1>>}

\* values of _calculate_sleep_time, milliseconds
SleepTimes == {0, 100, 5000}

CyInit ==
    cy = [pc |-> "loop", running |-> TRUE, cycle_count |-> 0,
          results |-> [r \in Regions |-> <<"none">>],
          cycle_matches |-> 0, cycle_accounts |-> 0, error_logged |-> {},
          total_matches_found |-> 0, raised_in |-> {}, sleep_time |-> 0]

CyFrame == UNCHANGED <<selVars, schedVars, rlVars, reqVars, store, ing, slp,
                       wk, st, db, sc, fa, tailVars>>

\* stop(): self._running = False
cycle_stop ==
    /\ cy.running
    /\ cy.pc # "exited"
    /\ cy' = [cy EXCEPT !.running = FALSE]

\* while self._running: _run_cycle creates the region tasks (lines 84-85,
\* 111-121)
run_cycle ==
    /\ cy.pc = "loop"
    /\ cy.running
    /\ cy.cycle_count < MaxCycles
    /\ cy' = [cy EXCEPT !.pc = "gather", !.cycle_count = @ + 1,
                        !.results = [r \in Regions |-> <<"pending">>]]

\* a _process_region task returns (total_new_matches, accounts_processed)
region_returns(r, res) ==
    /\ cy.pc = "gather"
    /\ cy.results[r] = <<"pending">>
    /\ cy' = [cy EXCEPT !.results[r] = <<"ok", res[1], res[2]>>]

\* a region task whose exception gather lets through to its caller
region_raises_Propagates(r) ==
    /\ cy.pc = "gather"
    /\ cy.results[r] = <<"pending">>
    /\ cy' = [cy EXCEPT !.results[r] = <<"exception">>, !.pc = "exited",
                        !.raised_in = @ \cup {cy.cycle_count}]

\* a _process_region task raises: gather keeps the exception as the result
region_raises(r) ==
    /\ cy.pc = "gather"
    /\ cy.results[r] = <<"pending">>
    /\ cy' = [cy EXCEPT !.results[r] = <<"exception">>,
                        !.raised_in = @ \cup {cy.cycle_count}]

Returned == {r \in Regions : cy.results[r][1] = "ok"}

SumOver(rs, k) ==
    LET RECURSIVE Sum(_)
        Sum(xs) == IF xs = {} THEN 0
                   ELSE LET x == CHOOSE y \in xs : TRUE
                        IN cy.results[x][k] + Sum(xs \ {x})
    IN Sum(rs)

\* gather returns; the results are aggregated and the exceptions logged
\* (lines 123-150)
aggregate_results ==
    /\ cy.pc = "gather"
    /\ \A r \in Regions : cy.results[r] # <<"pending">>
    /\ cy' = [cy EXCEPT
                !.pc = "sleep_time",
                !.cycle_matches = SumOver(Returned, 2),
                !.cycle_accounts = SumOver(Returned, 3),
                !.error_logged = Regions \ Returned,
                !.total_matches_found = @ + SumOver(Returned, 2)]

\* sleep_time = await self._calculate_sleep_time(); asyncio.sleep if it is
\* positive (lines 87-90)
cycle_sleep(t) ==
    /\ cy.pc = "sleep_time"
    /\ cy' = [cy EXCEPT !.sleep_time = t,
                        !.pc = IF t > 0 THEN "sleeping" ELSE "loop"]

cycle_sleep_done ==
    /\ cy.pc = "sleeping"
    /\ cy' = [cy EXCEPT !.pc = "loop"]

\* the while loop ends and _cleanup runs (lines 84, 96-97)
run_exits ==
    /\ cy.pc = "loop"
    /\ ~cy.running
    /\ cy' = [cy EXCEPT !.pc = "exited"]

CyNext ==
    \/ cycle_stop /\ CyFrame
    \/ run_cycle /\ CyFrame
    \/ \E r \in Regions, res \in RegionResults : region_returns(r, res) /\ CyFrame
    \/ \E r \in Regions : region_raises(r) /\ CyFrame
    \/ aggregate_results /\ CyFrame
    \/ \E t \in SleepTimes : cycle_sleep(t) /\ CyFrame
    \/ cycle_sleep_done /\ CyFrame
    \/ run_exits /\ CyFrame

InitCycle == SelIdle /\ SchedIdle /\ RlIdle /\ ReqIdle /\ IngIdle /\ SlpIdle
        /\ WkIdle /\ StIdle /\ DbIdle /\ ScIdle /\ FaIdle /\ CyInit /\ TailIdle

SpecCycle == InitCycle /\ [][CyNext]_vars

\* C30: when a region task raises during a cycle the cycle still completes:
\* the results of the regions that returned are counted, the exception is
\* logged for the raising region only, and the driver loop does not end: it
\* computes its sleep and, unless stopped, runs the next cycle.
C30_CycleSurvivesRegionError ==
    /\ [](cy.pc = "exited" => ~cy.running)
    /\ [][(cy.pc = "gather" /\ cy'.pc # "gather") =>
            /\ cy'.pc = "sleep_time"
            /\ cy'.error_logged = {r \in Regions : cy.results[r] = <<"exception">>}
            /\ cy'.cycle_matches = SumOver(Returned, 2)
            /\ cy'.cycle_accounts = SumOver(Returned, 3)
            /\ cy'.total_matches_found
                  = cy.total_matches_found + SumOver(Returned, 2)]_vars
    /\ [][(cy.pc = "sleep_time" /\ cy'.pc # "sleep_time") =>
            cy'.pc \in {"sleeping", "loop"}]_vars

\* EUW raised in the first cycle while NA returned two matches; the second
\* cycle is running
C30_Witness ==
    /\ 1 \in cy.raised_in
    /\ cy.cycle_count = 2
    /\ cy.pc = "gather"
    /\ cy.total_matches_found = 2

(***************************************************************************)
(* The driver cycle over the scheduler: _run_cycle starts one              *)
(* _process_region task per region queue (fetch_matches_v2.py:119-121),    *)
(* each task calls get_ready_accounts(region) once with the default        *)
(* batch_size (line 166) and processes its batch in a for loop; gather     *)
(* returns when every task has ended.  batch_size is MaxCount here.        *)
(***************************************************************************)

\* the _process_region task of a region
TaskOf == [EUW |-> "t1", NA |-> "t2"]

DrvFrame == UNCHANGED <<schedVars, rlVars, reqVars, store, ing, slp, wk, st,
                        db, sc, fa, tailVars>>

\* regions = list(self._selector.queues.keys()); a task per region
drv_run_cycle ==
    /\ initialized
    /\ cy.pc = "loop"
    /\ cy.cycle_count < MaxCycles
    /\ cy' = [cy EXCEPT !.pc = "gather", !.cycle_count = @ + 1,
                        !.results = [r \in Regions |->
                                       IF HasQueue(r) THEN <<"pending">>
                                       ELSE <<"none">>]]
    /\ UNCHANGED selVars

\* the task of region r starts: line 166
drv_get_ready_accounts(r) ==
    /\ cy.pc = "gather"
    /\ cy.results[r] = <<"pending">>
    /\ get_ready_accounts(TaskOf[r], r, MaxCount)
    /\ UNCHANGED cy

\* the task of region r returns (total_new_matches, accounts_processed)
drv_region_returns(r) ==
    /\ task[TaskOf[r]].region = r
    /\ process_region_return(TaskOf[r])
    /\ cy' = [cy EXCEPT !.results[r] =
                          <<"ok", 0, Len(task[TaskOf[r]].ready)>>]

\* the task of region r ends with the exception of the handler's reschedule
drv_region_raises(r) ==
    /\ task[TaskOf[r]].region = r
    /\ process_region_raises(TaskOf[r])
    /\ cy' = [cy EXCEPT !.results[r] = <<"exception">>,
                        !.raised_in = @ \cup {cy.cycle_count}]

\* gather returns, run() sleeps and loops (lines 84-90, 121-150)
drv_cycle_ends ==
    /\ cy.pc = "gather"
    /\ \A r \in Regions : cy.results[r] # <<"pending">>
    /\ cy' = [cy EXCEPT !.pc = "loop", !.error_logged = Regions \ Returned]
    /\ UNCHANGED selVars

DrvNext ==
    \/ initialize /\ UNCHANGED cy /\ DrvFrame
    \/ \E p \in Accounts, r \in Regions :
          add_account(p, r) /\ UNCHANGED cy /\ DrvFrame
    \/ drv_run_cycle /\ DrvFrame
    \/ \E r \in Regions : drv_get_ready_accounts(r) /\ DrvFrame
    \/ \E t \in Tasks, n \in NewMatches, d \in {NoData, Grinder}, f \in BOOLEAN :
          process_account(t, n, d, f) /\ UNCHANGED cy /\ DrvFrame
    \/ \E t \in Tasks : reschedule_persisted(t) /\ UNCHANGED cy /\ DrvFrame
    \/ \E t \in Tasks : reschedule_failed(t) /\ UNCHANGED cy /\ DrvFrame
    \/ \E r \in Regions : drv_region_raises(r) /\ DrvFrame
    \/ \E r \in Regions : drv_region_returns(r) /\ DrvFrame
    \/ drv_cycle_ends /\ DrvFrame
    \/ Tick /\ UNCHANGED cy /\ DrvFrame

InitDriver == SelInit /\ SchedIdle /\ RlIdle /\ ReqIdle /\ IngIdle /\ SlpIdle
        /\ WkIdle /\ StIdle /\ DbIdle /\ ScIdle /\ FaIdle /\ CyInit /\ TailIdle

SpecDriver == InitDriver /\ [][DrvNext]_vars

\* the accounts of region r's queue that are due
DueIn(r) == {a \in Range(queues[r]) : Key[a] <= clock}

LkFrame == UNCHANGED <<schedVars, rlVars, reqVars, extVars>>

\* add_account up to the end of the "async with" body: the entry is pushed
\* and written to the index while the lock is held (lines 196-238)
lk_add_account_locked(t, puuid, region) ==
    /\ initialized
    /\ task[t].pc = "idle"
    /\ puuid \notin account_map
    /\ HasQueue(region) => locks[region] = None
    /\ LET pa == [activity_score |-> ScoreOf(Dormant),
                  tier |-> determine_tier(ScoreOf(Dormant)),
                  next_fetch_at |-> clock,
                  last_fetched_at |-> NoTime,
                  consecutive_empty_fetches |-> 0,
                  region |-> region]
           q == IF HasQueue(region) THEN queues[region] ELSE <<>>
           key1 == [Key EXCEPT ![puuid] = pa.next_fetch_at]
       IN /\ acct' = [acct EXCEPT ![puuid] = pa]
          /\ queues' = Put(queues, region, heappush(q, key1, puuid))
          /\ locks' = Put(locks, region, t)
          /\ account_map' = account_map \cup {puuid}
    /\ task' = [task EXCEPT ![t].pc = "add_locked", ![t].region = region]
    /\ UNCHANGED <<clock, cfg, initialized>>

\* an add_account that pushes an indexed puuid once more
lk_add_account_known_Pushes(t, puuid) ==
    /\ initialized
    /\ task[t].pc = "idle"
    /\ puuid \in account_map
    /\ task["t1"].ncalls + task["t2"].ncalls < MaxCalls
    /\ locks[acct[puuid].region] = None
    /\ queues' = [queues EXCEPT ![acct[puuid].region] = heappush(@, Key, puuid)]
    /\ task' = [task EXCEPT ![t].ncalls = @ + 1]
    /\ UNCHANGED <<clock, cfg, initialized, locks, account_map, acct>>

\* add_account for a puuid that is in the index: return at line 203.  The
\* call is counted in ncalls
lk_add_account_known(t, puuid) ==
    /\ initialized
    /\ task[t].pc = "idle"
    /\ puuid \in account_map
    /\ task["t1"].ncalls + task["t2"].ncalls < MaxCalls
    /\ task' = [task EXCEPT ![t].ncalls = @ + 1]
    /\ UNCHANGED <<clock, cfg, initialized, queues, locks, account_map, acct>>

\* the lock is released at the end of the "async with" of add_account
lk_add_account_unlock(t) ==
    /\ task[t].pc = "add_locked"
    /\ locks' = [locks EXCEPT ![task[t].region] = None]
    /\ task' = [task EXCEPT ![t] = [IdleTask EXCEPT !.ncalls = task[t].ncalls]]
    /\ UNCHANGED <<clock, cfg, initialized, queues, account_map, acct>>

\* reschedule up to the heappush inside the "async with" (lines 309-360)
lk_reschedule_locked(t, new_matches, data) ==
    /\ task[t].pc = "got"
    /\ task[t].idx <= Len(task[t].ready)
    /\ new_matches = 0 => data = NoData
    /\ LET a == Current(t)
           res == RescheduleFields(acct[a], cfg, clock, new_matches, data)
           r == acct[a].region
           key1 == [Key EXCEPT ![a] = res[1].next_fetch_at]
       IN /\ locks[r] = None
          /\ acct' = [acct EXCEPT ![a] = res[1]]
          /\ queues' = [queues EXCEPT ![r] = heappush(@, key1, a)]
          /\ locks' = [locks EXCEPT ![r] = t]
          /\ task' = [task EXCEPT ![t].pc = "rs_locked",
                                  ![t].interval = res[2]]
    /\ UNCHANGED <<clock, cfg, initialized, account_map>>

\* the lock is released at the end of the "async with" of reschedule
lk_reschedule_unlock(t) ==
    /\ task[t].pc = "rs_locked"
    /\ locks' = [locks EXCEPT ![acct[Current(t)].region] = None]
    /\ task' = [task EXCEPT ![t].pc = "rs_unlocked"]
    /\ UNCHANGED <<clock, cfg, initialized, queues, account_map, acct>>

\* self._account_map[account.puuid] = account (line 363)
lk_reschedule_index(t) ==
    /\ task[t].pc = "rs_unlocked"
    /\ account_map' = account_map \cup {Current(t)}
    /\ task' = [task EXCEPT ![t].pc = "rs_db"]
    /\ UNCHANGED <<clock, cfg, initialized, queues, locks, acct>>

LkNext ==
    \/ initialize /\ LkFrame
    \/ \E t \in Tasks, p \in Accounts, r \in Regions :
          lk_add_account_locked(t, p, r) /\ LkFrame
    \/ \E t \in Tasks, p \in Accounts : lk_add_account_known(t, p) /\ LkFrame
    \/ \E t \in Tasks : lk_add_account_unlock(t) /\ LkFrame
    \/ \E t \in Tasks, r \in Regions :
          get_ready_accounts(t, r, MaxCount) /\ LkFrame
    \/ \E t \in Tasks, n \in NewMatches, d \in {NoData, Grinder} :
          lk_reschedule_locked(t, n, d) /\ LkFrame
    \/ \E t \in Tasks : lk_reschedule_unlock(t) /\ LkFrame
    \/ \E t \in Tasks : lk_reschedule_index(t) /\ LkFrame
    \/ \E t \in Tasks : reschedule_persisted(t) /\ LkFrame
    \/ \E t \in Tasks : process_region_return(t) /\ LkFrame
    \/ Tick /\ LkFrame

InitLock == SelInit /\ SchedIdle /\ RlIdle /\ ReqIdle /\ ExtIdle

SpecLock == InitLock /\ [][LkNext]_vars

\* task t holds the lock of region r
Holds(t, r) == HasQueue(r) /\ locks[r] = t

\* C32: every write to the puuid-to-entry index, by add_account and by
\* reschedule, is made while the writer holds the lock of the entry's
\* region: add_account's write is inside its "async with" body, and the
\* task that executes line 363 of reschedule holds the lock at that moment.
C32_IndexWritesUnderLock ==
    [][\A t \in Tasks :
          /\ task'[t].pc = "add_locked" /\ task[t].pc = "idle"
                => locks'[task'[t].region] = t
          /\ task[t].pc = "rs_unlocked" /\ task'[t].pc = "rs_db"
                => Holds(t, acct[Current(t)].region)]_vars

\* ------------------------------------------------------------------------
\* add_account alone: any interleaving of calls by two tasks
\* ------------------------------------------------------------------------
AddNext ==
    \/ initialize /\ LkFrame
    \/ \E t \in Tasks, p \in Accounts, r \in Regions :
          lk_add_account_locked(t, p, r) /\ LkFrame
    \/ \E t \in Tasks, p \in Accounts : lk_add_account_known(t, p) /\ LkFrame
    \/ \E t \in Tasks : lk_add_account_unlock(t) /\ LkFrame
    \/ Tick /\ LkFrame

SpecAdd == InitLock /\ [][AddNext]_vars

\* a call of add_account by t that found the puuid in the index
KnownCall(t) ==
    /\ task[t].pc = "idle"
    /\ task'[t].pc = "idle"
    /\ task'[t].ncalls = task[t].ncalls + 1

\* a call of add_account by t that added an entry
AddingCall(t) == task[t].pc = "idle" /\ task'[t].pc = "add_locked"

\* C33: add_account for an indexed puuid changes neither the heaps nor the
\* index; after any interleaving of add_account calls each puuid is at most
\* once in the index and in the region heaps; a newly added entry has score
\* 0, tier inactive, consecutive_empty_fetches 0 and next_fetch_at = now.
C33_AddAccountOnce ==
    /\ [][\A t \in Tasks :
            KnownCall(t) => /\ queues' = queues
                            /\ account_map' = account_map
                            /\ acct' = acct]_vars
    /\ [](\A a \in Accounts :
            /\ Copies(a) <= 1
            /\ a \in account_map <=> Copies(a) = 1)
    /\ [][\A t \in Tasks :
            AddingCall(t) =>
               \E p \in account_map' \ account_map :
                  /\ account_map' = account_map \cup {p}
                  /\ acct'[p].activity_score = 0
                  /\ acct'[p].tier = "inactive"
                  /\ acct'[p].consecutive_empty_fetches = 0
                  /\ acct'[p].next_fetch_at = clock
                  /\ acct'[p].region = task'[t].region
                  /\ p \in Range(queues'[task'[t].region])]_vars

\* a2 was added to a new region queue at minute 2 after the store had
\* given a1 alone, and a later call for an indexed puuid was a no-op
C33_Witness ==
    /\ account_map = Accounts
    /\ HasQueue("NA")
    /\ acct["a2"].region = "NA"
    /\ acct["a2"].next_fetch_at = 2
    /\ Copies("a2") = 1
    /\ task["t1"].ncalls + task["t2"].ncalls >= 1
    /\ \A t \in Tasks : task[t].pc = "idle"

\* C34: the start_time passed to the match-id listing is never below
\* DEFAULT_START_TIME: it is max(last_match_at, DEFAULT_START_TIME), and
\* DEFAULT_START_TIME when last_match_at is null, the UNIX epoch or any
\* value before the floor.
C34_StartTimeFloor ==
    fa.start_time # NoTime =>
        /\ fa.start_time >= DEFAULT_START_TIME
        /\ fa.start_time =
              IF fa.account_last_match_at \in {NoTime, TimestampError}
              THEN DEFAULT_START_TIME
              ELSE Max(fa.account_last_match_at, DEFAULT_START_TIME)

\* ------------------------------------------------------------------------
\* The daily aggregates of one account: the rank lookup and the upserts at
\* the end of _fetch_account_matches, and DatabaseService.update_daily_stats
\* ------------------------------------------------------------------------

MaxDailyCalls == 2

MaxDailyMatches == 2

\* the null of the lp column (tier and rank use None)
NullLp == -1

Dates == {"today", "yesterday"}

\* RANKED_SOLO_5x5 entries the league endpoint can return
LeagueEntries ==
    { [tier |-> "GOLD", rank |-> "II", lp |-> 50],
      [tier |-> "GOLD", rank |-> "I", lp |-> 0] }

\* outcomes of get_league_entries_by_puuid as the loop of 340-346 sees them
LeagueOutcomes ==
    [kind : {"solo"}, entry : LeagueEntries]
       \cup { [kind |-> "no_solo", entry |-> <<>>],
              [kind |-> "failed", entry |-> <<>>] }

NoRow ==
    [exists |-> FALSE, games_played |-> 0, tier |-> None, rank |-> None,
     lp |-> NullLp]

\* rows left by earlier cycles
StoredRows ==
    { NoRow,
      [exists |-> TRUE, games_played |-> 0, tier |-> "GOLD", rank |-> "II",
       lp |-> 50],
      [exists |-> TRUE, games_played |-> 0, tier |-> "SILVER", rank |-> "I",
       lp |-> 75] }

\* SQL COALESCE(a, b) with the column's null
Coalesce(a, b, null) == IF a # null THEN a ELSE b

\* INSERT ... ON CONFLICT (puuid, date) DO UPDATE of update_daily_stats
update_daily_stats_sql(rows, matches, d, tier, rank, lp) ==
    [rows EXCEPT ![d] =
        IF rows[d].exists
        THEN [exists |-> TRUE,
              games_played |-> matches[d],
              tier |-> Coalesce(tier, rows[d].tier, None),
              rank |-> Coalesce(rank, rows[d].rank, None),
              lp |-> Coalesce(lp, rows[d].lp, NullLp)]
        ELSE [exists |-> TRUE,
              games_played |-> matches[d],
              tier |-> tier,
              rank |-> rank,
              lp |-> lp]]

\* tier, rank_div, lp after the lookup of 337-348
RankOf(outcome) ==
    IF outcome.kind = "solo"
    THEN <<outcome.entry.tier, outcome.entry.rank, outcome.entry.lp>>
    ELSE <<None, None, 0>>

DyInit ==
    \E rows \in [Dates -> StoredRows] :
        dy = [pc |-> "idle", rows |-> rows,
              matches |-> [d \in Dates |-> 0],
              dates_to_update |-> {}, calls |-> 0, upserts |-> 0,
              last |-> [date |-> None, ranked |-> FALSE]]

DyFrame ==
    UNCHANGED <<selVars, schedVars, rlVars, reqVars, store, ing, slp, wk, st,
                db, sc, fa, cy, prc>>

\* the match loop of one call stored the new matches of the dates in ds
daily_matches_ingested(ds) ==
    /\ dy.pc = "idle"
    /\ dy.calls < MaxDailyCalls
    /\ \A d \in ds : dy.matches[d] < MaxDailyMatches
    /\ dy' = [dy EXCEPT !.pc = "today",
                        !.calls = @ + 1,
                        !.matches = [d \in Dates |->
                                        IF d \in ds THEN @[d] + 1 ELSE @[d]],
                        !.dates_to_update = ds]

\* the rank lookup and today's upsert (337-351)
daily_today(outcome) ==
    /\ dy.pc = "today"
    /\ dy' = [dy EXCEPT !.pc = "past",
                        !.rows = update_daily_stats_sql(@, dy.matches, "today",
                                                    RankOf(outcome)[1],
                                                    RankOf(outcome)[2],
                                                    RankOf(outcome)[3]),
                        !.upserts = @ + 1,
                        !.last = [date |-> "today",
                                  ranked |-> outcome.kind = "solo"]]

\* one round of the loop over dates_to_update (354-356)
daily_past(d) ==
    /\ dy.pc = "past"
    /\ d \in dy.dates_to_update \ {"today"}
    /\ dy' = [dy EXCEPT !.rows = update_daily_stats_sql(@, dy.matches, d,
                                                    None, None, 0),
                        !.dates_to_update = @ \ {d},
                        !.upserts = @ + 1,
                        !.last = [date |-> d, ranked |-> FALSE]]

daily_done ==
    /\ dy.pc = "past"
    /\ dy.dates_to_update \ {"today"} = {}
    /\ dy' = [dy EXCEPT !.pc = "idle", !.dates_to_update = {}]

DyNext ==
    \/ \E ds \in SUBSET Dates : daily_matches_ingested(ds) /\ DyFrame
    \/ \E outcome \in LeagueOutcomes : daily_today(outcome) /\ DyFrame
    \/ \E d \in Dates : daily_past(d) /\ DyFrame
    \/ daily_done /\ DyFrame

InitDaily == SelIdle /\ SchedIdle /\ RlIdle /\ ReqIdle /\ IngIdle /\ SlpIdle
        /\ WkIdle /\ StIdle /\ DbIdle /\ ScIdle /\ FaIdle /\ CyIdle
        /\ DyInit /\ PrcIdle

SpecDaily == InitDaily /\ [][DyNext]_vars

\* the step is an upsert of date d that carried no rank data
UpsertWithoutRank(d) ==
    /\ dy'.upserts = dy.upserts + 1
    /\ dy'.last = [date |-> d, ranked |-> FALSE]

\* C35: an upsert without rank data (a past date, or today when the rank
\* lookup failed or returned no solo-queue entry) leaves the row's existing
\* non-null tier, rank and LP unchanged and only recomputes the counts.
C35_UpsertWithoutRankKeepsRank ==
    [][\A d \in Dates :
          UpsertWithoutRank(d) /\ dy.rows[d].exists =>
             /\ dy'.rows[d].games_played = dy.matches[d]
             /\ dy.rows[d].tier # None => dy'.rows[d].tier = dy.rows[d].tier
             /\ dy.rows[d].rank # None => dy'.rows[d].rank = dy.rows[d].rank
             /\ dy.rows[d].lp # NullLp => dy'.rows[d].lp = dy.rows[d].lp]_vars

\* ------------------------------------------------------------------------
\* One account's pass through the loop body of _process_region: the
\* worker-status writes around the fetch and the two reschedule calls
\* ------------------------------------------------------------------------

MaxPasses == 2

\* new_matches values _fetch_account_matches returns
FetchCounts == {0, 1, 2}

PrcStart(passes) ==
    [pc |-> "tag", passes |-> passes, new_matches |-> 0, failed |-> {},
     other_failed |-> FALSE, resched |-> <<>>]

PrcInit == prc = PrcStart(1)

PrcFrame ==
    UNCHANGED <<selVars, schedVars, rlVars, reqVars, store, ing, slp, wk, st,
                db, sc, fa, cy, dy>>

\* a worker-status write inside the main try block failed: the exception
\* reaches the handler of line 223
StatusWriteRaises(what) ==
    prc' = [prc EXCEPT !.pc = "handler", !.failed = @ \cup {what}]

\* another call inside the main try block raised
OtherRaises == prc' = [prc EXCEPT !.pc = "handler", !.other_failed = TRUE]

\* the guarded write of 174-184
prc_update_worker_current_account(ok) ==
    /\ prc.pc = "tag"
    /\ prc' = [prc EXCEPT !.pc = "fetch",
                          !.failed = IF ok THEN @
                                     ELSE @ \cup {"current_account"}]

prc_fetch_returns(n) ==
    /\ prc.pc = "fetch"
    /\ prc' = [prc EXCEPT !.pc = "last_fetched", !.new_matches = n]

prc_fetch_raises ==
    /\ prc.pc = "fetch"
    /\ OtherRaises

prc_update_account_last_fetched(ok) ==
    /\ prc.pc = "last_fetched"
    /\ IF ok
       THEN prc' = [prc EXCEPT !.pc = IF prc.new_matches > 0
                                      THEN "activity_data" ELSE "stats"]
       ELSE OtherRaises

prc_get_account_activity_data(ok) ==
    /\ prc.pc = "activity_data"
    /\ IF ok THEN prc' = [prc EXCEPT !.pc = "stats"] ELSE OtherRaises

\* increment_worker_stats of 206-209 and of 218
prc_increment_worker_stats(ok) ==
    /\ prc.pc = "stats"
    /\ IF ok
       THEN prc' = [prc EXCEPT !.pc = IF prc.new_matches > 0
                                      THEN "log" ELSE "reschedule"]
       ELSE StatusWriteRaises("session_counters")

\* log_worker_activity of 210-216
prc_log_worker_activity(ok) ==
    /\ prc.pc = "log"
    /\ IF ok
       THEN prc' = [prc EXCEPT !.pc = "reschedule"]
       ELSE StatusWriteRaises("activity_log")

\* reschedule(account, new_matches, activity_data) of line 221
prc_reschedule(ok) ==
    /\ prc.pc = "reschedule"
    /\ prc' = [prc EXCEPT !.pc = IF ok THEN "done" ELSE "handler",
                          !.resched = Append(@, prc.new_matches),
                          !.other_failed = @ \/ ~ok]

\* set_worker_error and log_worker_activity inside the guarded block of
\* 231-246: what names the write that failed, None when both succeeded
prc_handler_log(what) ==
    /\ prc.pc = "handler"
    /\ prc' = [prc EXCEPT !.pc = "handler_reschedule",
                          !.failed = IF what = None THEN @
                                     ELSE @ \cup {what}]

\* reschedule(account, 0) of 249-250
prc_handler_reschedule(ok) ==
    /\ prc.pc = "handler_reschedule"
    /\ prc' = [prc EXCEPT !.pc = IF ok THEN "done" ELSE "raised",
                          !.resched = Append(@, 0),
                          !.other_failed = @ \/ ~ok]

\* the for loop takes the next account of the batch
prc_next_account ==
    /\ prc.pc = "done"
    /\ prc.passes < MaxPasses
    /\ prc' = PrcStart(prc.passes + 1)

PrcNext ==
    \/ \E ok \in BOOLEAN : prc_update_worker_current_account(ok) /\ PrcFrame
    \/ \E n \in FetchCounts : prc_fetch_returns(n) /\ PrcFrame
    \/ prc_fetch_raises /\ PrcFrame
    \/ \E ok \in BOOLEAN : prc_update_account_last_fetched(ok) /\ PrcFrame
    \/ \E ok \in BOOLEAN : prc_get_account_activity_data(ok) /\ PrcFrame
    \/ \E ok \in BOOLEAN : prc_increment_worker_stats(ok) /\ PrcFrame
    \/ \E ok \in BOOLEAN : prc_log_worker_activity(ok) /\ PrcFrame
    \/ \E ok \in BOOLEAN : prc_reschedule(ok) /\ PrcFrame
    \/ \E what \in {None, "last_error", "activity_log"} :
          prc_handler_log(what) /\ PrcFrame
    \/ \E ok \in BOOLEAN : prc_handler_reschedule(ok) /\ PrcFrame
    \/ prc_next_account /\ PrcFrame

InitProcess == SelIdle /\ SchedIdle /\ RlIdle /\ ReqIdle /\ IngIdle /\ SlpIdle
        /\ WkIdle /\ StIdle /\ DbIdle /\ ScIdle /\ FaIdle /\ CyIdle
        /\ DyIdle /\ PrcInit

SpecProcess == InitProcess /\ [][PrcNext]_vars

\* C36: when worker-status writes (current-account tag, session counters,
\* activity-log append, last-error) are the only calls that failed during an
\* account's processing, the account is rescheduled once with the number of
\* new matches its fetch returned (zero when it found none).
C36_StatusWriteFailureKeepsReschedule ==
    prc.pc = "done" /\ prc.failed # {} /\ ~prc.other_failed =>
        prc.resched = <<prc.new_matches>>

\* ------------------------------------------------------------------------
\* Restart recovery: the worker process ends at any point and a new
\* AccountSelector is initialized from the rows reschedule has written
\* ------------------------------------------------------------------------

\* most restarts of the worker process
MaxRestarts == 1

\* the next_fetch_at column of the stored row of a (NULL until written)
StoredNextFetchOf(a) == db.priority[a].next_fetch_at

\* the consecutive_empty_fetches column of the stored row of a
StoredCounterOf(a) == db.priority[a].consecutive_empty_fetches

\* a new process runs initialize on the store as it is; the tasks of the
\* old process are gone
store_restart ==
    /\ initialized
    /\ db.restarts < MaxRestarts
    /\ ActiveRows # {}
    /\ LET D == ActiveRows
           nf == [a \in D |-> StoredNextFetchOf(a)]
           cef == [a \in D |-> StoredCounterOf(a)]
       IN \E act \in [D -> {Dormant, Grinder}] :
          \E rows \in RowOrders(D, nf) :
             LoadRows(D, nf, cef, act, rows)
    /\ task' = [t \in Tasks |-> [IdleTask EXCEPT !.ncalls = task[t].ncalls]]
    /\ db' = [db EXCEPT !.restarts = @ + 1]
    /\ UNCHANGED <<clock, cfg, initialized>>

RestartNext ==
    \/ store_initialize /\ StoreFrame
    \/ \E a \in Accounts : validate_account(a) /\ StoreFrame
    \/ \E m \in 1..MaxCount :
          get_ready_accounts(StoreTask, StoreRegion, m) /\ UNCHANGED db /\ StoreFrame
    \/ \E n \in NewMatches, d \in StoreActivity, f \in BOOLEAN :
          process_account(StoreTask, n, d, f) /\ UNCHANGED db /\ StoreFrame
    \/ store_reschedule_persisted /\ StoreFrame
    \/ reschedule_failed(StoreTask) /\ UNCHANGED db /\ StoreFrame
    \/ process_region_raises(StoreTask) /\ UNCHANGED db /\ StoreFrame
    \/ process_region_return(StoreTask) /\ UNCHANGED db /\ StoreFrame
    \/ store_restart /\ StoreFrame

SpecRestart == InitStore /\ [][RestartNext]_vars

\* the row of a holds the four scheduling fields of the entry of a
RowMatchesEntry(a) ==
    /\ db.priority[a].written
    /\ db.priority[a].activity_score = acct[a].activity_score
    /\ db.priority[a].tier = acct[a].tier
    /\ db.priority[a].next_fetch_at = acct[a].next_fetch_at
    /\ db.priority[a].consecutive_empty_fetches =
          acct[a].consecutive_empty_fetches

\* the step is the return of a reschedule whose store write succeeded
RescheduleCompleted(a) ==
    /\ task[StoreTask].pc = "rs_db"
    /\ task'[StoreTask].pc = "got"
    /\ a = task[StoreTask].ready[task[StoreTask].idx]

\* the step is a restart
Restarted == db'.restarts = db.restarts + 1

\* C37: when a reschedule completes without error the stored row holds the
\* entry's activity_score, tier, next_fetch_at and consecutive_empty_fetches;
\* a restart gives every account whose row was written the stored
\* next_fetch_at and empty-fetch counter, so an account whose row matches its
\* entry keeps both across the restart.
C37_StoreMirrorsReschedule ==
    /\ [][\A a \in Accounts : RescheduleCompleted(a) => RowMatchesEntry(a)']_vars
    /\ [][\A a \in Accounts :
            (Restarted /\ a \in account_map' /\ db.priority[a].written) =>
               /\ acct'[a].next_fetch_at = StoredNextFetchOf(a)
               /\ acct'[a].consecutive_empty_fetches = StoredCounterOf(a)
               /\ (RowMatchesEntry(a) =>
                     /\ acct'[a].next_fetch_at = acct[a].next_fetch_at
                     /\ acct'[a].consecutive_empty_fetches =
                           acct[a].consecutive_empty_fetches)]_vars

\* after a restart an entry carries the next_fetch_at and the non-zero
\* empty-fetch counter that a completed reschedule had written
C37_Witness ==
    /\ db.restarts = 1
    /\ \E a \in account_map :
          /\ RowMatchesEntry(a)
          /\ acct[a].consecutive_empty_fetches >= 1
          /\ acct[a].next_fetch_at > clock
    /\ task[StoreTask].pc = "idle"

\* ------------------------------------------------------------------------
\* Synergy rows of an ingested match (SpecIngest)
\* ------------------------------------------------------------------------

\* the tracked accounts among the participants of the match
TrackedInMatch == Range(Participants) \cap TrackedPuuids

\* every task has examined the match in its cycle, one of them ingested it
\* to the end, and no ingest is in flight
BothCyclesDone ==
    /\ NoIngestInFlight
    /\ \A t \in Tasks : ing[t].runs >= 1
    /\ \E t \in Tasks : ing[t].done >= 1
    /\ MatchId \in store.matches

\* C38: once the match is ingested and both tracked accounts have completed
\* a cycle, the synergy row (A, P) of every ordered pair of distinct tracked
\* participants counts the match exactly once, on the together counters for
\* teammates and on the against counters for opponents; there is no row for
\* an untracked participant or for (A, A).
C38_SynergyRowPerOrderedPair ==
    BothCyclesDone =>
        /\ \A A \in TrackedInMatch : \A P \in TrackedInMatch \ {A} :
              /\ <<A, P>> \in DOMAIN store.synergy
              /\ store.synergy[<<A, P>>] = SynergyDelta(A, P)
        /\ \A k \in DOMAIN store.synergy :
              k[1] \in TrackedInMatch /\ k[2] \in TrackedInMatch /\ k[1] # k[2]

\* ------------------------------------------------------------------------
\* Tier assignment under the accepted settings: _setup_jobs builds the
\* selector configuration and the selector's scorer assigns the tiers
\* ------------------------------------------------------------------------

\* scores (thousandths of a point) whose tier is asked for
TierScores == {0, 19999, 20000, 39999, 40000, 69999, 70000, 100000}

\* the tier initialize, add_account and reschedule give to a score: the
\* job builds ActivityScorer() without arguments and _setup_jobs passes the
\* intervals and the batch size only
assign_tier(score) ==
    /\ st.pc = "done"
    /\ st.result = "accepted"
    /\ st' = [st EXCEPT !.pc = "tiered", !.score = score,
                        !.tier = determine_tier(score)]
    /\ UNCHANGED <<selVars, schedVars, rlVars, reqVars, store, ing, slp, wk, db,
                lateVars>>

TierNext ==
    \/ Settings
    \/ \E score \in TierScores : assign_tier(score)

SpecTier == InitSettings /\ [][TierNext]_vars

\* the tier the thresholds of the settings s give to a score
ConfiguredTier(s, score) ==
    IF score >= s.priority_tier_very_active * 1000 THEN "very_active"
    ELSE IF score >= s.priority_tier_active * 1000 THEN "active"
    ELSE IF score >= s.priority_tier_moderate * 1000 THEN "moderate"
    ELSE "inactive"

\* the three thresholds are numbers, at most 100, strictly descending and
\* above 0
ValidThresholds(s) ==
    /\ FloatLe(s.priority_tier_very_active, 100)
    /\ FloatGt(s.priority_tier_very_active, s.priority_tier_active)
    /\ FloatGt(s.priority_tier_active, s.priority_tier_moderate)
    /\ FloatGt(s.priority_tier_moderate, 0)

\* C39: for every valid configuration and every score, the tier assigned by
\* initialize, add_account and reschedule is the one the configured
\* thresholds priority_tier_very_active / active / moderate give.
C39_TierFollowsConfiguredThresholds ==
    st.pc = "tiered" /\ ValidThresholds(st.input) =>
        st.tier = ConfiguredTier(st.input, st.score)

\* ------------------------------------------------------------------------
\* A run of empty fetches: the entry of one account is rescheduled with
\* new_matches = 0 again and again
\* ------------------------------------------------------------------------

\* most reschedule calls of the run
MaxEmptyRun == 34

\* valid and ascending, with a cap of the inactive tier above 8 times its base
HighCapConfig ==
    [base |-> [very_active |-> 1, active |-> 2, moderate |-> 3, inactive |-> 4],
     max |-> [very_active |-> 2, active |-> 4, moderate |-> 6, inactive |-> 40]]

DormantConfigs == {AccountSelectorConfig, TinyConfig, HighCapConfig}

DormantInit ==
    /\ clock = 0
    /\ cfg \in DormantConfigs
    /\ \E act \in SchedActivity, cef \in StoredEmptyFetches :
          entry = [activity_score |-> ScoreOf(act),
                   tier |-> determine_tier(ScoreOf(act)),
                   next_fetch_at |-> clock,
                   last_fetched_at |-> NoTime,
                   consecutive_empty_fetches |-> cef,
                   region |-> "EUW"]
    /\ calls = <<>>
    /\ initialized = TRUE
    /\ queues = <<>>
    /\ locks = <<>>
    /\ account_map = {}
    /\ acct = [a \in Accounts |-> NoEntry]
    /\ task = [t \in Tasks |-> IdleTask]

\* reschedule(entry, 0): the fetch of the account found nothing
reschedule_empty ==
    LET res == RescheduleFields(entry, cfg, clock, 0, NoData)
    IN /\ CallsMade < MaxEmptyRun
       /\ entry' = res[1]
       /\ calls' = LastCalls(calls,
                             [seq |-> CallsMade + 1,
                              new_matches |-> 0, data |-> NoData,
                              before |-> entry, now |-> clock,
                              interval |-> res[2]])
       /\ UNCHANGED <<clock, cfg, initialized, queues, locks, account_map,
                      acct, task, rlVars, reqVars, extVars>>

DormantNext ==
    \/ reschedule_empty
    \/ SchedTick

InitDormant == DormantInit /\ RlIdle /\ ReqIdle /\ ExtIdle

\* the driver loop keeps running its cycles, so the account, once due, is
\* fetched and rescheduled again
SpecDormant ==
    InitDormant /\ [][DormantNext]_vars /\ WF_vars(reschedule_empty)

\* very_active = 3 ... inactive = 0
TierRank(tier) ==
    IF tier = "very_active" THEN 3
    ELSE IF tier = "active" THEN 2
    ELSE IF tier = "moderate" THEN 1
    ELSE 0

\* the step is a reschedule of an entry that already was inactive
InactiveRescheduled == calls' # calls /\ entry.tier = "inactive"

\* the score never increases and the tier never becomes more active
DecaysOnly ==
    [][/\ entry'.activity_score <= entry.activity_score
       /\ TierRank(entry'.tier) <= TierRank(entry.tier)]_vars

\* C40 as stated: under empty fetches only, the entry eventually is
\* inactive; every reschedule of the inactive entry has the interval
\* max_interval[inactive]; the score never increases and the tier never
\* becomes more active.
C40_AsStated ==
    /\ <>(entry.tier = "inactive")
    /\ [][InactiveRescheduled =>
             calls'[Len(calls')].interval = cfg.max["inactive"]]_vars
    /\ DecaysOnly

\* C40 amended: under empty fetches only, the entry eventually is inactive
\* and stays inactive; every reschedule of the inactive entry has the
\* interval min(base[inactive] * min(2^cef, 8), max[inactive]), which is
\* max_interval[inactive] in every configuration whose inactive cap is at
\* most twice the inactive base; the score never increases and the tier
\* never becomes more active.
C40_DormantBacksOff ==
    /\ <>[](entry.tier = "inactive")
    /\ [][InactiveRescheduled =>
             /\ calls'[Len(calls')].interval =
                   Min(cfg.base["inactive"]
                          * Min(2 ^ Min(entry'.consecutive_empty_fetches, 3), 8),
                       cfg.max["inactive"])
             /\ (2 * cfg.base["inactive"] >= cfg.max["inactive"] =>
                   calls'[Len(calls')].interval = cfg.max["inactive"])]_vars
    /\ DecaysOnly

\* an entry that started very active was rescheduled as inactive with the
\* default cap of 360 minutes
C40_Witness ==
    /\ calls # <<>>
    /\ cfg = AccountSelectorConfig
    /\ LastCall.before.tier = "inactive"
    /\ LastCall.interval = 360
    /\ LastCall.seq >= 30
    /\ entry.tier = "inactive"

====
